---------------------------- MODULE Spec2Model ----------------------------
(***************************************************************************)
(* MindWall: a model of the IMAP relay (src/proxy/imap) and of the         *)
(* analysis pipeline (src/api/analysis, src/api/db, src/api/routers).      *)
(*                                                                         *)
(* Two specifications share the module:                                    *)
(*   SpecRelay  the upstream->client and client->upstream pumps of one     *)
(*              authenticated session, the FETCH interceptor and the       *)
(*              analysis submissions it spawns;                            *)
(*   Spec       concurrent runs of POST /api/analyze: the pipeline, the    *)
(*              repositories, the broadcast and the baseline updates.      *)
(*                                                                         *)
(* Octets.  An element of a stream is an octet.  Values below 256 are real *)
(* octet values.  Values from 256 on are atoms: each stands for one fixed  *)
(* ASCII string of the protocol (the text "* 1 FETCH (", the descriptor    *)
(* "BODY[] ", a literal marker "{n}").  ASCII passes the proxy's decode    *)
(* and encode unchanged and the parser only pattern-matches these strings, *)
(* so counting an atom as one octet rescales lengths and nothing else.     *)
(***************************************************************************)
EXTENDS Integers, Sequences, FiniteSets, TLC

VARIABLES
    \* ---- relay (src/proxy/imap) ----
    sent,              \* every octet the upstream server has sent, in order
    rd,                \* how many octets of sent the proxy has read
    upClosed,          \* upstream reached end-of-stream
    cliOut,            \* every octet written to the client, in order
    accumulating,      \* FetchInterceptor._accumulating
    accumulated_bytes, \* FetchInterceptor._accumulated_bytes
    expected_bytes,    \* FetchInterceptor._expected_bytes
    accStart,          \* history: value of rd when accumulation was entered
    captures,          \* history: one record per completed body
    tasks,             \* the _submit_for_analysis tasks, in creation order
    u2c,               \* _forward_upstream_responses: "run" or "done"
    c2u,               \* _forward_client_commands: "run" or "done"
    cliCmds,           \* client command lines not yet forwarded
    upCmds,            \* client command lines forwarded to upstream
    \* ---- analysis API (src/api) ----
    runs,              \* one record per POST /api/analyze request
    analyses,          \* the analyses table
    alerts,            \* the alerts table
    baselines,         \* the sender_baselines table: key -> row or NoRow
    broadcasts,        \* events handed to WebSocketManager.broadcast
    updates,           \* the update_baseline tasks
    seeded,            \* history: the sender_baselines table at the start
    \* ---- annotation (src/proxy/imap/injector.py, server.py) ----
    upstream_response, \* a FETCH response as the upstream server sent it
    verdict,           \* severity of the message's analysis verdict, or "none"
    response,          \* the text inject_score has been applied to
    injected,          \* how many times inject_score has been applied
    observed,          \* what the relay wrote to the client, <<>> before
    \* ---- one client session (src/proxy/imap/server.py handle_client) ----
    phase,             \* "preauth", "pipe" (inside _pipe) or "closed"
    client,            \* client connection: "open", "eof" or "reset"
    upstream_host,     \* TRUE once XMINDWALL has set the upstream endpoint
    conns,             \* upstream connections opened: "open", "lost", "closed"
    upstream,          \* index in conns of handle_client's upstream, 0 = None
    authenticated,     \* handle_client's authenticated flag
    pumps,             \* the two tasks of _pipe
    toClient,          \* what the session wrote to the client, in order
    toUpstream,        \* the lines the session wrote to upstream, in order
    ended,             \* history: why and with which logs the session ended
    \* ---- alert subscribers (src/api/websocket/manager.py) ----
    active_connections,\* WebSocketManager._active_connections, a list
    sink_ok,           \* per sink: TRUE while a send to it succeeds
    inbox,             \* per sink: the events written to it, in order
    bcasts,            \* one record per call of broadcast, in call order
    \* ---- scoring of one message (scorer.py, pipeline.py 132-145) ----
    score_in,          \* inference reply, deviation score and boost
    score_out,         \* merged scores, aggregate and boosted aggregate
    score_pc,          \* how far the scoring has got
    \* ---- sender baseline (src/api/analysis/behavioral/baseline.py) ----
    typical_hours,     \* the stored typical_hours list of one baseline row
    added_hours,       \* history: the hours in the order they were added
    ema_axis,          \* which EMA axis is followed, and its stored value
    ema_sample,        \* the value every further message measures on it
    ema_updates,       \* updates applied to that axis so far
    \* ---- cross-channel detector (behavioral/cross_channel.py) ----
    cc_in,             \* current channel and the recent analysis records
    cc_out,            \* the dict detect returned
    cc_pc,             \* "idle", "query" or "returned"
    \* ---- position of the upstream stream in the IMAP grammar ----
    syn,               \* where the octets sent so far leave a parser
    body_literals,     \* history: the body literals the upstream sent
    entries,           \* history: where the interceptor began to accumulate
    \* ---- several client sessions of one MindWallIMAPServer ----
    pending,           \* per session: the upstream lines not yet relayed
    acc_owner,         \* history: the session whose FETCH line was last entered
    captured           \* history: completed bodies with their session

varsRelay == <<sent, rd, upClosed, cliOut, accumulating, accumulated_bytes,
               expected_bytes, accStart, captures, tasks, u2c, c2u,
               cliCmds, upCmds>>
varsApi == <<runs, analyses, alerts, baselines, broadcasts, updates, seeded>>
varsInject == <<upstream_response, verdict, response, injected, observed>>
varsLogin == <<phase, client, upstream_host, conns, upstream, authenticated,
               pumps, toClient, toUpstream, ended>>
varsWs == <<active_connections, sink_ok, inbox, bcasts>>
varsScore == <<score_in, score_out, score_pc>>
varsHours == <<typical_hours, added_hours>>
varsEma == <<ema_axis, ema_sample, ema_updates>>
varsCross == <<cc_in, cc_out, cc_pc>>
varsEntry == <<syn, body_literals, entries>>
varsShared == <<pending, acc_owner, captured>>
varsLate == <<varsHours, varsEma, varsCross, varsEntry, varsShared>>
varsEarly == <<varsRelay, varsApi, varsInject, varsLogin, varsWs, varsScore>>
varsMore == <<varsInject, varsLogin, varsWs, varsScore, varsLate>>
vars == <<sent, rd, upClosed, cliOut, accumulating, accumulated_bytes,
          expected_bytes, accStart, captures, tasks, u2c, c2u,
          cliCmds, upCmds, runs, analyses, alerts, baselines, broadcasts,
          updates, seeded, varsMore>>

(***************************************************************************)
(* Bounds of the model.                                                    *)
(***************************************************************************)
MaxStream == 6      \* octets the upstream server sends in one session
MaxLiteral == 2     \* largest octet count {n} a FETCH header announces
MaxCmds == 1        \* command lines the client sends after login

(***************************************************************************)
(* Octets and atoms.                                                       *)
(***************************************************************************)
ASCII_A == 97       \* an ASCII text octet
LF == 10            \* line feed: StreamReader.readline's terminator
BAD8 == 255         \* an octet that is not valid UTF-8 (0xFF)
RC1 == 239          \* U+FFFD encoded in UTF-8 is EF BF BD
RC2 == 191
RC3 == 189
UFFFD == 65533      \* the character U+FFFD (a str element, not an octet)
FETCH == 256        \* atom: "* 1 FETCH ("
BODYD == 257        \* atom: the descriptor "BODY[] "
LITBASE == 300      \* atom LITBASE + n: the literal marker "{n}"

Lit(n) == LITBASE + n
IsLit(o) == o >= LITBASE
LitVal(o) == o - LITBASE

Take(s, n) == SubSeq(s, 1, IF n < Len(s) THEN n ELSE Len(s))


(***************************************************************************)
(* bytes.decode("utf-8", errors="replace") and str.encode("utf-8").        *)
(* An octet below 128 and an atom (ASCII text) decode to themselves; the   *)
(* sequence EF BF BD decodes to U+FFFD; every other maximal ill-formed     *)
(* run (EF BF, EF, a lone continuation octet, FF) decodes to one U+FFFD.   *)
(***************************************************************************)
IsPlain(o) == o < 128 \/ o >= 256

RECURSIVE Decode(_)
Decode(bs) ==
    IF bs = <<>> THEN <<>>
    ELSE IF IsPlain(bs[1]) THEN <<bs[1]>> \o Decode(Tail(bs))
    ELSE IF bs[1] = RC1 /\ Len(bs) >= 2 /\ bs[2] = RC2
         THEN IF Len(bs) >= 3 /\ bs[3] = RC3
              THEN <<UFFFD>> \o Decode(SubSeq(bs, 4, Len(bs)))
              ELSE <<UFFFD>> \o Decode(SubSeq(bs, 3, Len(bs)))
    ELSE <<UFFFD>> \o Decode(Tail(bs))

RECURSIVE Encode(_)
Encode(cs) ==
    IF cs = <<>> THEN <<>>
    ELSE (IF cs[1] = UFFFD THEN <<RC1, RC2, RC3>> ELSE <<cs[1]>>)
         \o Encode(Tail(cs))

(***************************************************************************)
(* UpstreamIMAPConnection.read_lines: readline() returns the unread octets *)
(* up to and including the first LF, or all of them at end-of-stream.      *)
(***************************************************************************)
Unread == SubSeq(sent, rd + 1, Len(sent))

HasLF(bs) == \E i \in 1..Len(bs) : bs[i] = LF

FirstLF(bs) == CHOOSE i \in 1..Len(bs) :
                   bs[i] = LF /\ \A j \in 1..(i - 1) : bs[j] # LF

LineReady == HasLF(Unread) \/ (upClosed /\ Unread # <<>>)

ReadLine == IF HasLF(Unread) THEN SubSeq(Unread, 1, FirstLF(Unread))
            ELSE Unread

(***************************************************************************)
(* IMAPParser.is_fetch_response: FETCH_PATTERN anchored at the start of    *)
(* the stripped line.  IMAPParser.has_body_data: the first BODY descriptor *)
(* directly followed by a literal marker; its count, or 0 for no match.    *)
(***************************************************************************)
RECURSIVE LStrip(_)
LStrip(cs) == IF cs # <<>> /\ cs[1] = LF THEN LStrip(Tail(cs)) ELSE cs

is_fetch_response(line) == LET t == LStrip(line)
                           IN  t # <<>> /\ t[1] = FETCH

BodyMatches(line) == {i \in 1..(Len(line) - 1) :
                          line[i] = BODYD /\ IsLit(line[i + 1])}

has_body_data(line) ==
    IF BodyMatches(line) = {} THEN 0
    ELSE LET i == CHOOSE k \in BodyMatches(line) :
                      \A j \in BodyMatches(line) : k <= j
         IN  LitVal(line[i + 1])

(***************************************************************************)
(* FetchInterceptor.process_line, the state it leaves.  The line is a str  *)
(* (decoded); the interceptor re-encodes it to count and keep octets.      *)
(* submit: whether the sanitized text is longer than 20 characters, which  *)
(* depends on the message text and is an input here.                       *)
(***************************************************************************)
SubmitAwaitedMut == TRUE  \* the submission awaited inside process_line

SubmitAwaited == FALSE    \* asyncio.create_task: process_line awaits nothing

ProcessLine(line, submit) ==
    IF accumulating
    THEN LET acc == accumulated_bytes \o Encode(line)
         IN  /\ accumulated_bytes' = acc
             /\ UNCHANGED <<expected_bytes, accStart>>
             /\ IF Len(acc) >= expected_bytes
                THEN /\ accumulating' = FALSE
                     /\ captures' = Append(captures,
                            [start  |-> accStart,
                             n      |-> expected_bytes,
                             octets |-> Take(acc, expected_bytes),
                             emit   |-> Len(cliOut) - Len(accumulated_bytes),
                             end    |-> rd'])
                     /\ tasks' = IF submit THEN Append(tasks, "posting")
                                 ELSE tasks
                ELSE UNCHANGED <<accumulating, captures, tasks>>
    ELSE /\ UNCHANGED <<captures, tasks>>
         /\ IF is_fetch_response(line) /\ has_body_data(line) # 0
            THEN /\ accumulating' = TRUE
                 /\ accumulated_bytes' = <<>>
                 /\ expected_bytes' = has_body_data(line)
                 /\ accStart' = rd'
            ELSE UNCHANGED <<accumulating, accumulated_bytes,
                             expected_bytes, accStart>>

(***************************************************************************)
(* The upstream server and the client: the environment of the session.     *)
(***************************************************************************)
UpstreamSendOctet(o) ==
    /\ ~upClosed
    /\ Len(sent) + 1 <= MaxStream
    /\ sent' = Append(sent, o)
    /\ UNCHANGED <<rd, upClosed, cliOut, accumulating, accumulated_bytes,
                   expected_bytes, accStart, captures, tasks, u2c, c2u,
                   cliCmds, upCmds>>
    /\ UNCHANGED <<varsApi, varsMore>>

UpstreamSendFetch(n) ==
    /\ ~upClosed
    /\ Len(sent) + 4 <= MaxStream
    /\ sent' = sent \o <<FETCH, BODYD, Lit(n), LF>>
    /\ UNCHANGED <<rd, upClosed, cliOut, accumulating, accumulated_bytes,
                   expected_bytes, accStart, captures, tasks, u2c, c2u,
                   cliCmds, upCmds>>
    /\ UNCHANGED <<varsApi, varsMore>>

UpstreamClose ==
    /\ ~upClosed
    /\ upClosed' = TRUE
    /\ UNCHANGED <<sent, rd, cliOut, accumulating, accumulated_bytes,
                   expected_bytes, accStart, captures, tasks, u2c, c2u,
                   cliCmds, upCmds>>
    /\ UNCHANGED <<varsApi, varsMore>>

ClientSend ==
    /\ cliCmds + upCmds < MaxCmds
    /\ cliCmds' = cliCmds + 1
    /\ UNCHANGED <<sent, rd, upClosed, cliOut, accumulating,
                   accumulated_bytes, expected_bytes, accStart, captures,
                   tasks, u2c, c2u, upCmds>>
    /\ UNCHANGED <<varsApi, varsMore>>

(***************************************************************************)
(* MindWallIMAPServer._forward_upstream_responses: one turn of the loop    *)
(* (read a line, decode it, process_line, encode, write, drain), and the   *)
(* end of the loop at end-of-stream.                                       *)
(***************************************************************************)
ForwardUpstreamResponse ==
    /\ u2c = "run"
    /\ LineReady
    /\ SubmitAwaited => \A i \in 1..Len(tasks) : tasks[i] # "posting"
    /\ LET raw  == ReadLine
           line == Decode(raw)
       IN  /\ rd' = rd + Len(raw)
           /\ \E submit \in BOOLEAN : ProcessLine(line, submit)
           /\ cliOut' = cliOut \o Encode(line)
    /\ UNCHANGED <<sent, upClosed, u2c, c2u, cliCmds, upCmds>>
    /\ UNCHANGED <<varsApi, varsMore>>

ForwardUpstreamEnd ==
    /\ u2c = "run"
    /\ upClosed /\ Unread = <<>>
    /\ u2c' = "done"
    /\ UNCHANGED <<sent, rd, upClosed, cliOut, accumulating,
                   accumulated_bytes, expected_bytes, accStart, captures,
                   tasks, c2u, cliCmds, upCmds>>
    /\ UNCHANGED <<varsApi, varsMore>>

(***************************************************************************)
(* MindWallIMAPServer._forward_client_commands: one turn of the loop.      *)
(***************************************************************************)
ForwardClientCommand ==
    /\ c2u = "run"
    /\ cliCmds > 0
    /\ cliCmds' = cliCmds - 1
    /\ upCmds' = upCmds + 1
    /\ UNCHANGED <<sent, rd, upClosed, cliOut, accumulating,
                   accumulated_bytes, expected_bytes, accStart, captures,
                   tasks, u2c, c2u>>
    /\ UNCHANGED <<varsApi, varsMore>>

(***************************************************************************)
(* MindWallIMAPServer._pipe: after the first pump completes, the pending   *)
(* one is cancelled.                                                       *)
(***************************************************************************)
PipeCancel ==
    /\ (u2c = "done" /\ c2u = "run") \/ (c2u = "done" /\ u2c = "run")
    /\ u2c' = "done"
    /\ c2u' = "done"
    /\ UNCHANGED <<sent, rd, upClosed, cliOut, accumulating,
                   accumulated_bytes, expected_bytes, accStart, captures,
                   tasks, cliCmds, upCmds>>
    /\ UNCHANGED <<varsApi, varsMore>>

(***************************************************************************)
(* FetchInterceptor._submit_for_analysis: the POST returns 200 ("ok"),     *)
(* returns another status ("failed"), or raises and the exception is       *)
(* logged ("error").  A stalled submission stays "posting".                *)
(***************************************************************************)
SubmitOutcomes == {"ok", "failed", "error"}

SubmitForAnalysisEnds(i, outcome) ==
    /\ tasks[i] = "posting"
    /\ tasks' = [tasks EXCEPT ![i] = outcome]
    /\ UNCHANGED <<sent, rd, upClosed, cliOut, accumulating,
                   accumulated_bytes, expected_bytes, accStart, captures,
                   u2c, c2u, cliCmds, upCmds>>
    /\ UNCHANGED <<varsApi, varsMore>>


(***************************************************************************)
(*                         The analysis API                                *)
(*                                                                         *)
(* Scores are kept in hundredths of a point (a float rounded to 2 places): *)
(* 3500 is 35.00.  Weights are in hundredths too (12 is 0.12).             *)
(***************************************************************************)
MaxRuns == 2        \* POST /api/analyze requests in one behaviour
MaxUid == 2         \* distinct message_uid values
MaxSender == 1      \* distinct sender addresses (one recipient)

MEDIUM == 35        \* severity and alert thresholds, in points
HIGH == 60
CRITICAL == 80
MIN_SAMPLES == 3    \* deviation scoring needs this many samples

Pt(x) == 100 * x

Dims == <<"artificial_urgency", "authority_impersonation",
          "fear_threat_induction", "reciprocity_exploitation",
          "scarcity_tactics", "social_proof_manipulation",
          "sender_behavioral_deviation", "cross_channel_coordination",
          "emotional_escalation", "request_context_mismatch",
          "unusual_action_requested", "timing_anomaly">>

DimSet == {Dims[i] : i \in 1..Len(Dims)}

DIMENSION_WEIGHTS ==
    [artificial_urgency |-> 12, authority_impersonation |-> 15,
     fear_threat_induction |-> 12, reciprocity_exploitation |-> 7,
     scarcity_tactics |-> 7, social_proof_manipulation |-> 6,
     sender_behavioral_deviation |-> 12, cross_channel_coordination |-> 8,
     emotional_escalation |-> 7, request_context_mismatch |-> 6,
     unusual_action_requested |-> 5, timing_anomaly |-> 3]

Min(a, b) == IF a < b THEN a ELSE b
Max(a, b) == IF a > b THEN a ELSE b
Clamp(lo, hi, x) == Max(lo, Min(hi, x))

\* round(x, 2) of a value given in 1/10000 of a point: the nearest
\* hundredth, a tie going to the even one.
Round2(x4) ==
    LET q == x4 \div 100
        r == x4 % 100
    IN  IF r > 50 \/ (r = 50 /\ q % 2 = 1) THEN q + 1 ELSE q

(***************************************************************************)
(* PreFilter.evaluate.  The input says which pattern families match the    *)
(* text (the regular expressions themselves are not modelled): the result  *)
(* is the signal list in the code's order, the boost and the trigger flag. *)
(***************************************************************************)
Sig(name, arg) == [sig |-> name, arg |-> arg]

PreFilterEvaluate(f) ==
    LET s1 == IF f.urgency THEN <<Sig("urgency_language_detected", 0)>>
              ELSE <<>>
        s2 == IF f.authority
              THEN <<Sig("authority_reference_detected", 0)>> ELSE <<>>
        s3 == IF f.fear THEN <<Sig("fear_threat_language_detected", 0)>>
              ELSE <<>>
        s4 == IF f.suspicious > 0
              THEN <<Sig("suspicious_request_detected", f.suspicious)>>
              ELSE <<>>
        s5 == IF f.emotional
              THEN <<Sig("emotional_manipulation_detected", 0)>> ELSE <<>>
        s6 == IF f.spoofed THEN <<Sig("spoofed_sender_pattern", 0)>>
              ELSE <<>>
        s7 == IF f.hour >= 0 /\ (f.hour < 5 \/ f.hour > 23)
              THEN <<Sig("unusual_send_hour", f.hour)>> ELSE <<>>
        s8 == IF f.caps THEN <<Sig("all_caps_subject", 0)>> ELSE <<>>
        s9 == IF f.exclaims > 3
              THEN <<Sig("excessive_exclamation_marks", f.exclaims)>>
              ELSE <<>>
        signals == s1 \o s2 \o s3 \o s4 \o s5 \o s6 \o s7 \o s8 \o s9
        boost == (IF f.urgency THEN 5 ELSE 0)
               + (IF f.authority THEN 8 ELSE 0)
               + (IF f.fear THEN 7 ELSE 0)
               + (IF f.suspicious > 0 THEN Min(f.suspicious * 5, 20) ELSE 0)
               + (IF f.emotional THEN 4 ELSE 0)
               + (IF f.spoofed THEN 10 ELSE 0)
               + (IF f.hour >= 0 /\ (f.hour < 5 \/ f.hour > 23) THEN 3 ELSE 0)
               + (IF f.caps THEN 3 ELSE 0)
               + (IF f.exclaims > 3 THEN 2 ELSE 0)
    IN  [triggered |-> Len(signals) > 0,
         signals |-> signals,
         score_boost |-> Pt(boost)]

(***************************************************************************)
(* AnalysisPipeline._fallback_scores.                                      *)
(***************************************************************************)
Num(v) == [t |-> "num", v |-> v]
NonNumeric == [t |-> "str", v |-> 0]

signal_mapping ==
    [urgency_language_detected |->
         [dim |-> "artificial_urgency", value |-> 40],
     authority_reference_detected |->
         [dim |-> "authority_impersonation", value |-> 45],
     fear_threat_language_detected |->
         [dim |-> "fear_threat_induction", value |-> 40],
     emotional_manipulation_detected |->
         [dim |-> "emotional_escalation", value |-> 35],
     spoofed_sender_pattern |->
         [dim |-> "authority_impersonation", value |-> 60],
     all_caps_subject |->
         [dim |-> "emotional_escalation", value |-> 20]]

RECURSIVE FallbackDims(_, _)
FallbackDims(signals, scores) ==
    IF signals = <<>> THEN scores
    ELSE LET base == Head(signals).sig
             next ==
                 IF base \in DOMAIN signal_mapping
                 THEN LET m == signal_mapping[base]
                      IN  [scores EXCEPT ![m.dim] =
                               Max(scores[m.dim], Pt(m.value))]
                 ELSE IF base = "suspicious_request_detected"
                 THEN [scores EXCEPT !["unusual_action_requested"] = Pt(50)]
                 ELSE scores
         IN  FallbackDims(Tail(signals), next)

FALLBACK_EXPLANATION ==
    "Analysis based on rule-based pre-filter (LLM unavailable)."

fallback_scores(pf) ==
    LET scores == FallbackDims(pf.signals, [d \in DimSet |-> 0])
    IN  [dimension_scores |-> [d \in DimSet |-> Num(scores[d])],
         explanation |-> FALLBACK_EXPLANATION,
         recommended_action |-> IF pf.triggered THEN "verify" ELSE "proceed"]

(***************************************************************************)
(* AnalysisPipeline._validate_llm_response.  llm_data is a JSON object: a  *)
(* record whose fields may be absent.  A dimension value is Num(v) or a    *)
(* non-numeric value.                                                      *)
(***************************************************************************)
EmptyMap == [d \in {} |-> Num(0)]

validate_llm_response(llm_data) ==
    LET ds == IF "dimension_scores" \in DOMAIN llm_data
              THEN llm_data.dimension_scores ELSE EmptyMap
        vs == [d \in (DOMAIN ds) \cup DimSet |->
                  IF d \notin DimSet THEN ds[d]
                  ELSE IF d \notin DOMAIN ds THEN Num(0)
                  ELSE IF ds[d].t = "num" THEN ds[d] ELSE Num(0)]
        ex == IF "explanation" \in DOMAIN llm_data
              THEN llm_data.explanation ELSE "Analysis completed."
        a0 == IF "recommended_action" \in DOMAIN llm_data
              THEN llm_data.recommended_action ELSE "proceed"
        ac == IF a0 \in {"proceed", "verify", "block"} THEN a0 ELSE "verify"
    IN  [dimension_scores |-> vs, explanation |-> ex,
         recommended_action |-> ac]

(***************************************************************************)
(* ScoreAggregator.merge and compute_aggregate, the pre-filter boost and   *)
(* AnalysisPipeline._severity.                                             *)
(***************************************************************************)
merge_mut(llm_dimension_scores, behavioral_deviation_score) ==
    [d \in DOMAIN llm_dimension_scores |-> llm_dimension_scores[d].v]

merge(llm_dimension_scores, behavioral_deviation_score) ==
    LET clamped == [d \in DimSet |->
                       IF d \in DOMAIN llm_dimension_scores
                       THEN Clamp(0, Pt(100), llm_dimension_scores[d].v)
                       ELSE 0]
        dev == "sender_behavioral_deviation"
        blended == (behavioral_deviation_score * 60 + clamped[dev] * 40)
                   \div 100
    IN  IF behavioral_deviation_score > 0
        THEN [clamped EXCEPT ![dev] = Min(Pt(100), blended)]
        ELSE clamped

RECURSIVE WeightedSum(_, _)
WeightedSum(scores, i) ==
    IF i > Len(Dims) THEN 0
    ELSE scores[Dims[i]] * DIMENSION_WEIGHTS[Dims[i]]
         + WeightedSum(scores, i + 1)

compute_aggregate(dimension_scores) ==
    Round2(Clamp(0, Pt(Pt(100)), WeightedSum(dimension_scores, 1)))

apply_boost_mut(aggregate_score, score_boost) == aggregate_score + score_boost

apply_boost(aggregate_score, score_boost) ==
    IF score_boost > 0 THEN Min(Pt(100), aggregate_score + score_boost)
    ELSE aggregate_score

severity_mut(score) ==
    IF score > Pt(CRITICAL) THEN "critical"
    ELSE IF score > Pt(HIGH) THEN "high"
    ELSE IF score > Pt(MEDIUM) THEN "medium"
    ELSE "low"

severity(score) ==
    IF score >= Pt(CRITICAL) THEN "critical"
    ELSE IF score >= Pt(HIGH) THEN "high"
    ELSE IF score >= Pt(MEDIUM) THEN "medium"
    ELSE "low"

(***************************************************************************)
(* Inputs of a request.                                                    *)
(***************************************************************************)
RECIPIENT == "recipient"

Keys == {<<RECIPIENT, sd>> : sd \in 1..MaxSender}

NoRow == [exists |-> FALSE, sample_count |-> 0]
Row(n) == [exists |-> TRUE, sample_count |-> n]

Features(u, a, f, s, sp, c) ==
    [urgency |-> u, authority |-> a, fear |-> f, suspicious |-> s,
     emotional |-> FALSE, spoofed |-> sp, hour |-> 14, caps |-> c,
     exclaims |-> 0]

Benign == Features(FALSE, FALSE, FALSE, 0, FALSE, FALSE)
UrgentCeo == Features(TRUE, TRUE, FALSE, 0, TRUE, TRUE)

AllDims(v) == [d \in DimSet |-> Num(Pt(v))]

Reply(ds, action) ==
    [dimension_scores |-> ds, explanation |-> "llm",
     recommended_action |-> action]

ReplyNoDims == [explanation |-> "llm", recommended_action |-> "proceed"]

ReplyNonNumeric ==
    Reply([AllDims(50) EXCEPT !["artificial_urgency"] = NonNumeric],
          "proceed")

Json(d) == [kind |-> "json", data |-> d]
Fail(k) == [kind |-> k, data |-> ReplyNoDims]

(***************************************************************************)
(* OllamaClient.generate followed by json.loads in AnalysisPipeline.run:   *)
(* the exception the inference stage ends with, "none" when it returns a   *)
(* JSON object.  A cancelled call ends with asyncio.CancelledError; JSON   *)
(* that is not an object passes json.loads and fails in the validation.    *)
(***************************************************************************)
InferenceRaises(kind) ==
    CASE kind \in {"timeout", "transport", "http_error", "empty"}
             -> "OllamaClientError"
      [] kind \in {"bad_http_json", "not_json"} -> "JSONDecodeError"
      [] kind = "cancelled" -> "CancelledError"
      [] kind = "json_not_object" -> "TypeError"
      [] OTHER -> "none"

\* The response text is not JSON, or is a JSON object without
\* dimension_scores or with a dimension score that is not a number.
Malformed(o) ==
    \/ o.kind \in {"not_json", "json_not_object"}
    \/ /\ o.kind = "json"
       /\ \/ "dimension_scores" \notin DOMAIN o.data
          \/ \E d \in DOMAIN o.data.dimension_scores :
                 o.data.dimension_scores[d].t # "num"

\* except (OllamaClientError, json.JSONDecodeError)
CaughtByPipeline(exc) == exc \in {"OllamaClientError", "JSONDecodeError"}

\* analyze_email: except Exception (CancelledError is a BaseException)
CaughtByRouter(exc) == exc # "CancelledError"

(***************************************************************************)
(* DeviationScorer.score.  Without a baseline, or with fewer than 3        *)
(* samples, the score is 0; otherwise it is a function of the message text *)
(* and the baseline, here the input dv.                                    *)
(***************************************************************************)
DevInputs == {0, Pt(50)}

PossibleDeviation(baseline) ==
    IF ~baseline.exists \/ baseline.sample_count < MIN_SAMPLES
    THEN {0} ELSE DevInputs

(***************************************************************************)
(* The tables.  analyses has UniqueConstraint(message_uid,                 *)
(* recipient_email); ids are assigned in insertion order.                  *)
(***************************************************************************)
UniqueViolationMut(uid, rcpt) == FALSE

UniqueViolation(uid, rcpt) ==
    \E i \in 1..Len(analyses) :
        analyses[i].message_uid = uid /\ analyses[i].recipient_email = rcpt

AfterAnalysisInsertMut(score) ==
    IF score >= Pt(MEDIUM) THEN "broadcast" ELSE "finish"

\* pipeline.py: if aggregate_score >= 35: alert insert, then broadcast
AfterAnalysisInsert(score) ==
    IF score >= Pt(MEDIUM) THEN "alert" ELSE "finish"

NewRun(uid, sd, f) ==
    [message_uid |-> uid, recipient_email |-> RECIPIENT,
     sender_email |-> sd,
     pf |-> PreFilterEvaluate(f),
     pc |-> "baseline",
     deviation_score |-> 0,
     inference_exc |-> "none",
     malformed |-> FALSE,
     exc |-> "none",
     llm_data |-> ReplyNoDims,
     final_scores |-> [d \in DimSet |-> 0],
     aggregate_score |-> 0,
     severity |-> "low",
     analysis_id |-> 0,
     alert_id |-> 0,
     raised |-> "none",
     http |-> 0]

RaiseMut(rec, stage, exc) ==
    [rec EXCEPT !.pc = IF exc = "IntegrityError" THEN "finish" ELSE "failed",
                !.raised = stage, !.exc = exc,
                !.http = IF CaughtByRouter(exc) THEN 500 ELSE 0]

\* analyze_email's handler: an Exception becomes HTTP 500; a CancelledError
\* passes through and no response is produced.
Raise(rec, stage, exc) ==
    [rec EXCEPT !.pc = "failed", !.raised = stage, !.exc = exc,
                !.http = IF CaughtByRouter(exc) THEN 500 ELSE 0]

(***************************************************************************)
(* analyze_email and AnalysisPipeline.run, one action per suspension.      *)
(***************************************************************************)
\* POST /api/analyze arrives; stage 1 (pre-filter) runs.
Submit(uid, sd, f) ==
    /\ Len(runs) < MaxRuns
    /\ runs' = Append(runs, NewRun(uid, sd, f))
    /\ UNCHANGED <<analyses, alerts, baselines, broadcasts, updates, seeded>>
    /\ UNCHANGED <<varsRelay, varsMore>>

\* Stage 2 returns the baseline; stage 3 scores the deviation.
LoadBaseline(r, dv) ==
    /\ runs[r].pc = "baseline"
    /\ LET key == <<runs[r].recipient_email, runs[r].sender_email>>
       IN  /\ dv \in PossibleDeviation(baselines[key])
           /\ runs' = [runs EXCEPT ![r].pc = "llm",
                                   ![r].deviation_score = dv]
    /\ UNCHANGED <<analyses, alerts, baselines, broadcasts, updates, seeded>>
    /\ UNCHANGED <<varsRelay, varsMore>>

\* Stage 4 ends with outcome o; validation, merge, aggregate, boost and
\* severity follow without suspension.
Inference(r, o) ==
    /\ runs[r].pc = "llm"
    /\ LET rec == runs[r]
           exc == InferenceRaises(o.kind)
           raw == IF CaughtByPipeline(exc) THEN fallback_scores(rec.pf)
                  ELSE o.data
           llm == validate_llm_response(raw)
           fin == merge(llm.dimension_scores, rec.deviation_score)
           agg == apply_boost(compute_aggregate(fin), rec.pf.score_boost)
       IN  runs' = [runs EXCEPT ![r] =
               IF exc # "none" /\ ~CaughtByPipeline(exc)
               THEN Raise([rec EXCEPT !.inference_exc = exc,
                                      !.malformed = Malformed(o)],
                          IF exc = "TypeError" THEN "validation"
                          ELSE "inference", exc)
               ELSE [rec EXCEPT !.pc = "persist", !.inference_exc = exc,
                                !.malformed = Malformed(o),
                                !.llm_data = llm, !.final_scores = fin,
                                !.aggregate_score = agg,
                                !.severity = severity(agg)]]
    /\ UNCHANGED <<analyses, alerts, baselines, broadcasts, updates, seeded>>
    /\ UNCHANGED <<varsRelay, varsMore>>

\* Stage 7: AnalysisRepository.insert commits, or raises (IntegrityError on
\* the uniqueness constraint, or the database is unavailable: db_ok FALSE).
InsertAnalysis(r, db_ok) ==
    /\ runs[r].pc = "persist"
    /\ LET rec == runs[r]
           id  == Len(analyses) + 1
       IN  IF ~db_ok
           THEN /\ runs' = [runs EXCEPT ![r] =
                       Raise(rec, "analysis_insert", "OperationalError")]
                /\ UNCHANGED analyses
           ELSE IF UniqueViolation(rec.message_uid, rec.recipient_email)
           THEN /\ runs' = [runs EXCEPT ![r] =
                       Raise(rec, "analysis_insert", "IntegrityError")]
                /\ UNCHANGED analyses
           ELSE /\ analyses' = Append(analyses,
                       [id |-> id,
                        message_uid |-> rec.message_uid,
                        recipient_email |-> rec.recipient_email,
                        sender_email |-> rec.sender_email,
                        manipulation_score |-> rec.aggregate_score,
                        dimension_scores |-> rec.final_scores,
                        explanation |-> rec.llm_data.explanation,
                        recommended_action |->
                            rec.llm_data.recommended_action])
                /\ runs' = [runs EXCEPT ![r].analysis_id = id,
                       ![r].pc = AfterAnalysisInsert(rec.aggregate_score)]
    /\ UNCHANGED <<alerts, baselines, broadcasts, updates, seeded>>
    /\ UNCHANGED <<varsRelay, varsMore>>

\* Stage 8: AlertRepository.insert commits or raises.
InsertAlert(r, db_ok) ==
    /\ runs[r].pc = "alert"
    /\ LET rec == runs[r]
           id  == Len(alerts) + 1
       IN  IF ~db_ok
           THEN /\ runs' = [runs EXCEPT ![r] =
                       Raise(rec, "alert_insert", "OperationalError")]
                /\ UNCHANGED alerts
           ELSE /\ alerts' = Append(alerts,
                       [id |-> id, analysis_id |-> rec.analysis_id,
                        severity |-> rec.severity])
                /\ runs' = [runs EXCEPT ![r].alert_id = id,
                                        ![r].pc = "broadcast"]
    /\ UNCHANGED <<analyses, baselines, broadcasts, updates, seeded>>
    /\ UNCHANGED <<varsRelay, varsMore>>

\* Stage 9: the new_alert event is handed to WebSocketManager.broadcast.
Broadcast(r) ==
    /\ runs[r].pc = "broadcast"
    /\ broadcasts' = Append(broadcasts,
           [event |-> "new_alert", run |-> r,
            alert_id |-> runs[r].alert_id,
            analysis_id |-> runs[r].analysis_id,
            manipulation_score |-> runs[r].aggregate_score,
            severity |-> runs[r].severity])
    /\ runs' = [runs EXCEPT ![r].pc = "finish"]
    /\ UNCHANGED <<analyses, alerts, baselines, updates, seeded>>
    /\ UNCHANGED <<varsRelay, varsMore>>

FinishMut(r) ==
    /\ runs[r].pc = "persist"
    /\ updates' = Append(updates,
           [key |-> <<runs[r].recipient_email, runs[r].sender_email>>,
            run |-> r, pc |-> "read", existing |-> NoRow])
    /\ runs' = [runs EXCEPT ![r].pc = "done", ![r].http = 200]
    /\ UNCHANGED <<analyses, alerts, baselines, broadcasts, seeded>>
    /\ UNCHANGED <<varsRelay, varsMore>>

\* Stage 10: asyncio.create_task(update_baseline(...)); the response is
\* returned without awaiting it.
Finish(r) ==
    /\ runs[r].pc = "finish"
    /\ updates' = Append(updates,
           [key |-> <<runs[r].recipient_email, runs[r].sender_email>>,
            run |-> r, pc |-> "read", existing |-> NoRow])
    /\ runs' = [runs EXCEPT ![r].pc = "done", ![r].http = 200]
    /\ UNCHANGED <<analyses, alerts, baselines, broadcasts, seeded>>
    /\ UNCHANGED <<varsRelay, varsMore>>

(***************************************************************************)
(* BaselineEngine.update_baseline: it awaits repo.get_baseline, computes   *)
(* the new row from what it read, and awaits repo.upsert_baseline, which   *)
(* sets the row whether or not one exists by then.                         *)
(***************************************************************************)
UpdateBaselineRead(u) ==
    /\ updates[u].pc = "read"
    /\ updates' = [updates EXCEPT ![u].pc = "write",
                                  ![u].existing = baselines[updates[u].key]]
    /\ UNCHANGED <<runs, analyses, alerts, baselines, broadcasts, seeded>>
    /\ UNCHANGED <<varsRelay, varsMore>>

UpdateBaselineWrite(u) ==
    /\ updates[u].pc = "write"
    /\ LET existing == updates[u].existing
           count == IF existing.exists THEN existing.sample_count + 1 ELSE 1
       IN  baselines' = [baselines EXCEPT ![updates[u].key] = Row(count)]
    /\ updates' = [updates EXCEPT ![u].pc = "done"]
    /\ UNCHANGED <<runs, analyses, alerts, broadcasts, seeded>>
    /\ UNCHANGED <<varsRelay, varsMore>>

(***************************************************************************)
(* Concurrent requests to the analysis API.                                *)
(***************************************************************************)
InitApi ==
    /\ runs = <<>>
    /\ analyses = <<>>
    /\ alerts = <<>>
    /\ baselines \in [Keys -> {NoRow, Row(MIN_SAMPLES)}]
    /\ seeded = baselines
    /\ broadcasts = <<>>
    /\ updates = <<>>

ApiFeatures == {Benign, UrgentCeo}

ApiOutcomes == {Json(Reply(AllDims(0), "proceed")),
                Json(Reply(AllDims(35), "verify")),
                Json(ReplyNoDims), Json(ReplyNonNumeric),
                Fail("timeout"), Fail("transport"), Fail("http_error"),
                Fail("empty"), Fail("bad_http_json"), Fail("not_json"),
                Fail("json_not_object"), Fail("cancelled")}

Next ==
    \/ \E uid \in 1..MaxUid, sd \in 1..MaxSender, f \in ApiFeatures :
           Submit(uid, sd, f)
    \/ \E r \in 1..Len(runs) : \E dv \in DevInputs : LoadBaseline(r, dv)
    \/ \E r \in 1..Len(runs) : \E o \in ApiOutcomes : Inference(r, o)
    \/ \E r \in 1..Len(runs) : \E ok \in BOOLEAN : InsertAnalysis(r, ok)
    \/ \E r \in 1..Len(runs) : \E ok \in BOOLEAN : InsertAlert(r, ok)
    \/ \E r \in 1..Len(runs) : Broadcast(r)
    \/ \E r \in 1..Len(runs) : Finish(r)
    \/ \E u \in 1..Len(updates) : UpdateBaselineRead(u)
    \/ \E u \in 1..Len(updates) : UpdateBaselineWrite(u)

(***************************************************************************)
(* RiskScoreInjector.  A response is a sequence of octets and atoms: the   *)
(* atom SUBJECT stands for the text "Subject:", a BADGE_ atom for one of   *)
(* the SEVERITY_BADGES strings.                                            *)
(***************************************************************************)
MaxResponse == 4    \* octets and atoms of one FETCH response
MaxInject == 2      \* applications of inject_score to one response

SP == 32
SUBJECT == 258
BADGE_MEDIUM == 260
BADGE_HIGH == 261
BADGE_CRITICAL == 262

NoBadge == 0

SEVERITY_BADGES(sev) ==
    CASE sev = "medium" -> BADGE_MEDIUM
      [] sev = "high" -> BADGE_HIGH
      [] sev = "critical" -> BADGE_CRITICAL
      [] OTHER -> NoBadge

\* ^ under re.MULTILINE: the start of the text or the position after "\n"
AtLineStart(text, i) == i = 1 \/ text[i - 1] = LF

\* SUBJECT_PATTERN.sub(..., count=1) rewrites the first match only.
SubjectMatches(text) ==
    {i \in 1..Len(text) : text[i] = SUBJECT /\ AtLineStart(text, i)}

\* \s* is greedy: it takes every following blank, line ends included.
RECURSIVE SkipSpace(_, _)
SkipSpace(text, i) ==
    IF i <= Len(text) /\ text[i] \in {SP, LF} THEN SkipSpace(text, i + 1)
    ELSE i

inject_score(raw_response, sev) ==
    LET badge == SEVERITY_BADGES(sev)
    IN  IF badge = NoBadge \/ SubjectMatches(raw_response) = {}
        THEN raw_response
        ELSE LET m == CHOOSE i \in SubjectMatches(raw_response) :
                          \A j \in SubjectMatches(raw_response) : i <= j
                 e == SkipSpace(raw_response, m + 1)
             IN  SubSeq(raw_response, 1, e - 1) \o <<badge, SP>>
                     \o SubSeq(raw_response, e, Len(raw_response))

Severities == {"none", "low", "medium", "high", "critical"}

ResponseOctets == {SUBJECT, SP, ASCII_A, LF, BADGE_HIGH}

RECURSIVE Texts(_)
Texts(n) ==
    IF n = 0 THEN {<<>>}
    ELSE LET shorter == Texts(n - 1)
         IN  shorter \cup {Append(t, o) : t \in shorter, o \in ResponseOctets}

IdleInject ==
    /\ upstream_response = <<>>
    /\ verdict = "none"
    /\ response = <<>>
    /\ injected = 0
    /\ observed = <<>>

\* handle_client before its first readline: the greeting has been written.
StartLogin ==
    /\ phase = "preauth"
    /\ client = "open"
    /\ upstream_host = FALSE
    /\ conns = <<>>
    /\ upstream = 0
    /\ authenticated = FALSE
    /\ pumps = [c2u |-> "none", u2c |-> "none"]
    /\ toClient = <<"greeting">>
    /\ toUpstream = <<>>
    /\ ended = [cause |-> "none", tagged_ok |-> FALSE, cli |-> 0, up |-> 0]

\* ---------------------------------------------------------------------
\* Scoring of one message: validation, merge, aggregate and boost
\* (src/api/analysis/pipeline.py 132-145, src/api/analysis/scorer.py)
\* ---------------------------------------------------------------------

Absent == [t |-> "absent", v |-> 0]

\* What the inference reply may hold for one dimension: nothing, a
\* non-number, numbers below, inside and above the range, fractions.
RawValues == {Absent, NonNumeric, Num(0 - Pt(50)), Num(50), Num(Pt(33)), Num(Pt(100)), Num(Pt(250))}

RestValues == {Absent, Num(Pt(100)), Num(Pt(250))}

VariedDims == {"sender_behavioral_deviation", "authority_impersonation", "timing_anomaly"}

ScoreMap(f, rest) ==
    [d \in {x \in DimSet : IF x \in VariedDims THEN f[x] # Absent ELSE rest # Absent}
        |-> IF d \in VariedDims THEN f[d] ELSE rest]

ScoreMaps == {ScoreMap(f, rest) : f \in [VariedDims -> RawValues], rest \in RestValues}

DeviationScores == {0, Pt(1), Pt(50), Pt(100)}

ScoreBoosts == {0, Pt(5), Pt(62)}

\* A reply that also holds a key that is not a dimension.
EXTRA_KEY == "not_a_dimension"

WithExtraKey(m) ==
    [d \in (DOMAIN m) \cup {EXTRA_KEY} |-> IF d = EXTRA_KEY THEN Num(Pt(50)) ELSE m[d]]

\* What _fallback_scores supplies when the inference call failed.
FallbackReplies == {fallback_scores(PreFilterEvaluate(f)) : f \in {Benign, UrgentCeo}}

ScoreInputs ==
    [llm_data : {Reply(m, "proceed") : m \in ScoreMaps}
                    \cup {Reply(WithExtraKey(m), "proceed") : m \in ScoreMaps}
                    \cup FallbackReplies \cup {ReplyNoDims},
     deviation_score : DeviationScores,
     score_boost : ScoreBoosts]

NoScores == [final_scores |-> [d \in DimSet |-> 0], aggregate |-> 0, final |-> 0]

IdleScore ==
    /\ score_pc = "idle"
    /\ score_in = [llm_data |-> ReplyNoDims, deviation_score |-> 0, score_boost |-> 0]
    /\ score_out = NoScores

StartScore ==
    /\ score_pc = "in"
    /\ score_in \in ScoreInputs
    /\ score_out = NoScores

\* llm_data = _validate_llm_response(llm_data); final_scores = merge(...)
MergeScores ==
    /\ score_pc = "in"
    /\ score_out' = [score_out EXCEPT !.final_scores =
            merge(validate_llm_response(score_in.llm_data).dimension_scores,
                  score_in.deviation_score)]
    /\ score_pc' = "merged"
    /\ UNCHANGED score_in
    /\ UNCHANGED <<varsRelay, varsApi, varsInject, varsLogin, varsWs, varsLate>>

\* aggregate_score = compute_aggregate(final_scores)
ComputeAggregate ==
    /\ score_pc = "merged"
    /\ score_out' = [score_out EXCEPT !.aggregate = compute_aggregate(score_out.final_scores)]
    /\ score_pc' = "aggregated"
    /\ UNCHANGED score_in
    /\ UNCHANGED <<varsRelay, varsApi, varsInject, varsLogin, varsWs, varsLate>>

\* the pre-filter boost, applied to the aggregate
ApplyBoost ==
    /\ score_pc = "aggregated"
    /\ score_out' = [score_out EXCEPT !.final = apply_boost(score_out.aggregate, score_in.score_boost)]
    /\ score_pc' = "boosted"
    /\ UNCHANGED score_in
    /\ UNCHANGED <<varsRelay, varsApi, varsInject, varsLogin, varsWs, varsLate>>

NextScore ==
    \/ MergeScores
    \/ ComputeAggregate
    \/ ApplyBoost

MaxSinks == 2       \* dashboard connections that exist
MaxBroadcasts == 2  \* calls of broadcast in one behaviour
MaxList == 2        \* length of _active_connections

Sinks == 1..MaxSinks

\* A manager without subscribers.
IdleWs ==
    /\ active_connections = <<>>
    /\ sink_ok = [sk \in Sinks |-> TRUE]
    /\ inbox = [sk \in Sinks |-> <<>>]
    /\ bcasts = <<>>

\* ---------------------------------------------------------------------
\* BaselineEngine.update_baseline: the typical-hours list of one row
\* (src/api/analysis/behavioral/baseline.py 91-141)
\* ---------------------------------------------------------------------

MaxAdded == 9       \* hours added to one baseline in one behaviour

HOURS_KEPT == 8     \* if len(hours_list) > 8: hours_list = hours_list[-8:]

HourInputs == 1..9  \* received_at.hour of the messages

Sorted(list) == SortSeq(list, LAMBDA a, b : a < b)

LastOf(list, n) ==
    IF Len(list) <= n THEN list ELSE SubSeq(list, Len(list) - n + 1, Len(list))

IdleHours ==
    /\ typical_hours = <<>>
    /\ added_hours = <<>>

\* One update with send_hour h: the first creates the row with [h]; a later
\* one loads the stored list, appends h if absent, keeps the last 8 and
\* stores the list sorted. (An hour already in the list leaves it as it is.)
UpdateTypicalHours(h) ==
    /\ Len(added_hours) < MaxAdded
    /\ h \notin {typical_hours[i] : i \in 1..Len(typical_hours)}
    /\ typical_hours' = Sorted(LastOf(Append(typical_hours, h), HOURS_KEPT))
    /\ added_hours' = Append(added_hours, h)
    /\ UNCHANGED <<varsEarly, varsEma, varsCross, varsEntry, varsShared>>

NextHours == \E h \in HourInputs : UpdateTypicalHours(h)

\* ---------------------------------------------------------------------
\* BaselineEngine.update_baseline: one EMA axis of one row
\* (src/api/analysis/behavioral/baseline.py 114-135)
\* ---------------------------------------------------------------------

MaxEmaUpdates == 50 \* updates applied to one row in one behaviour

EMA_ALPHA == 15     \* 0.15, in hundredths

\* avg_word_count and avg_sentence_length are stored rounded to two
\* decimals, formality_score to four: unit is the number of stored steps
\* in 1.
EmaAxes ==
    {[name |-> "avg_word_count", unit |-> 100],
     [name |-> "avg_sentence_length", unit |-> 100],
     [name |-> "formality_score", unit |-> 10000]}

\* Stored values and measured values, in stored steps.
EmaStored(a) ==
    IF a.name = "formality_score" THEN {0, 5000, 10000}
    ELSE IF a.name = "avg_word_count" THEN {0, 10003, 10300, 50000}
    ELSE {0, 1203, 1500, 4000}

EmaMeasured(a) ==
    IF a.name = "formality_score" THEN {0, 5000, 10000}
    ELSE IF a.name = "avg_word_count" THEN {10000, 10500}
    ELSE {1200, 1250}

IdleEma ==
    /\ ema_axis = [name |-> "none", unit |-> 1, value |-> 0]
    /\ ema_sample = 0
    /\ ema_updates = 0

StartEma ==
    /\ \E a \in EmaAxes : \E b \in EmaStored(a) :
           ema_axis = [name |-> a.name, unit |-> a.unit, value |-> b]
    /\ \E a \in EmaAxes : ema_axis.name = a.name /\ ema_sample \in EmaMeasured(a)
    /\ ema_updates = 0

\* existing.avg_word_count or 0, existing.formality_score or 0.5
OrDefault(axis, existing) ==
    IF existing # 0 THEN existing
    ELSE IF axis = "formality_score" THEN 5000 ELSE 0

\* round(alpha * sample + (1 - alpha) * (existing or default), digits)
ema(axis, sample, existing) ==
    Round2(EMA_ALPHA * sample + (100 - EMA_ALPHA) * OrDefault(axis, existing))

UpdateEma ==
    /\ ema_axis.name # "none"
    /\ ema_updates < MaxEmaUpdates
    /\ ema_axis' = [ema_axis EXCEPT !.value = ema(ema_axis.name, ema_sample, ema_axis.value)]
    /\ ema_updates' = ema_updates + 1
    /\ UNCHANGED ema_sample
    /\ UNCHANGED <<varsEarly, varsHours, varsCross, varsEntry, varsShared>>

NextEma == UpdateEma

\* ---------------------------------------------------------------------
\* CrossChannelDetector.detect (src/api/analysis/behavioral/cross_channel.py)
\* ---------------------------------------------------------------------

MaxRecent == 3      \* analysis records inside the 24 h window

MIN_CHANNELS_FOR_SIGNAL == 2

NoChannel == "none" \* an empty analysis.channel (the column is not nullable)

Channels == {"imap", "gmail_web"}

\* A record returned by get_recent_by_sender_recipient: its channel and its
\* manipulation_score (-1 stands for None).
RecentRecords == [channel : Channels, manipulation_score : {0 - 1, Pt(10), Pt(50)}]

RECURSIVE RecentLists(_)
RecentLists(n) ==
    IF n = 0 THEN {<<>>}
    ELSE RecentLists(n - 1) \cup
         {Append(l, a) : l \in {x \in RecentLists(n - 1) : Len(x) = n - 1}, a \in RecentRecords}

SelectScores(recent) == SelectSeq(recent, LAMBDA a : a.manipulation_score # 0 - 1)

detect(current_channel, recent_analyses) ==
    IF recent_analyses = <<>>
    THEN [coordination_detected |-> FALSE, score |-> 0,
          channels_used |-> {current_channel}, recent_analysis_count |-> 0]
    ELSE LET channels == ({current_channel} \cup
                 {recent_analyses[i].channel : i \in 1..Len(recent_analyses)}) \ {NoChannel}
             coordination_detected == Cardinality(channels) >= MIN_CHANNELS_FOR_SIGNAL
             analysis_count == Len(recent_analyses)
             scores == SelectScores(recent_analyses)
             raw == IF coordination_detected
                    THEN (Cardinality(channels) - 1) * Pt(25)
                         + Min(analysis_count * Pt(10), Pt(30))
                         + (IF Len(scores) >= 2 /\ scores[Len(scores)].manipulation_score > scores[1].manipulation_score
                            THEN Pt(20) ELSE 0)
                    ELSE 0
         IN [coordination_detected |-> coordination_detected,
             score |-> Min(Pt(100), Max(0, raw)),
             channels_used |-> channels,
             recent_analysis_count |-> analysis_count]

NoResult == [coordination_detected |-> FALSE, score |-> 0, channels_used |-> {}, recent_analysis_count |-> 0]

IdleCross ==
    /\ cc_pc = "idle"
    /\ cc_in = [current_channel |-> "imap", recent_analyses |-> <<>>]
    /\ cc_out = NoResult

StartCross ==
    /\ cc_pc = "query"
    /\ cc_in \in [current_channel : Channels, recent_analyses : RecentLists(MaxRecent)]
    /\ cc_out = NoResult

\* The query returns and detect computes its result.
Detect ==
    /\ cc_pc = "query"
    /\ cc_out' = detect(cc_in.current_channel, cc_in.recent_analyses)
    /\ cc_pc' = "returned"
    /\ UNCHANGED cc_in
    /\ UNCHANGED <<varsEarly, varsHours, varsEma, varsEntry, varsShared>>

NextCross == Detect

\* ---------------------------------------------------------------------
\* FETCH responses in full: several data items, quoted strings and
\* literals of items that are not the body (RFC 3501 section 7.4.2), relayed
\* by _forward_upstream_responses through FetchInterceptor.process_line.
\* ---------------------------------------------------------------------

MaxFetchStream == 9 \* octets the upstream sends in one session

QUOTE == 34         \* the octet of a double quote
CLOSE == 41         \* ")", the end of the FETCH data items
ENVD == 263         \* atom: "ENVELOPE (", whose first string follows

LiteralSizes == 1..MaxLiteral

IdleEntry ==
    /\ syn = [mode |-> "top", left |-> 0]
    /\ body_literals = <<>>
    /\ entries = <<>>

RelayRest == <<upClosed, u2c, c2u, cliCmds, upCmds>>

UpstreamSends(octets, mode, left) ==
    /\ ~upClosed
    /\ Len(sent) + Len(octets) <= MaxFetchStream
    /\ sent' = sent \o octets
    /\ syn' = [mode |-> mode, left |-> left]
    /\ UNCHANGED <<rd, cliOut, accumulating, accumulated_bytes, expected_bytes,
                   accStart, captures, tasks, RelayRest, entries>>
    /\ UNCHANGED <<varsApi, varsInject, varsLogin, varsWs, varsScore,
                   varsHours, varsEma, varsCross, varsShared>>

\* "* 1 FETCH (" opens a response.
FetchOpens ==
    /\ syn.mode = "top"
    /\ UpstreamSends(<<FETCH>>, "items", 0)
    /\ UNCHANGED body_literals

\* The data item BODY[] {n}: the descriptor, the octet count, the line end;
\* the n octets of the body follow.
FetchBodyLiteral(n) ==
    /\ syn.mode = "items"
    /\ UpstreamSends(<<BODYD, Lit(n), LF>>, "literal", n)
    /\ body_literals' = Append(body_literals, [at |-> Len(sent) + 3, n |-> n])

\* The data item ENVELOPE with its first string sent as a literal {n}.
FetchOtherLiteral(n) ==
    /\ syn.mode = "items"
    /\ UpstreamSends(<<ENVD, Lit(n), LF>>, "literal", n)
    /\ UNCHANGED body_literals

\* A quoted string whose text is "BODY[] {n}", as a subject may be.
FetchQuotedString(n) ==
    /\ syn.mode = "items"
    /\ UpstreamSends(<<QUOTE, BODYD, Lit(n), QUOTE>>, "items", 0)
    /\ UNCHANGED body_literals

\* One octet of a literal.
FetchLiteralOctet(o) ==
    /\ syn.mode = "literal" /\ syn.left > 0
    /\ UpstreamSends(<<o>>, IF syn.left = 1 THEN "items" ELSE "literal", syn.left - 1)
    /\ UNCHANGED body_literals

\* ")" and the line end close the response.
FetchCloses ==
    /\ syn.mode = "items"
    /\ UpstreamSends(<<CLOSE, LF>>, "top", 0)
    /\ UNCHANGED body_literals

\* One turn of the loop of _forward_upstream_responses.
RelayFetchLine ==
    /\ u2c = "run"
    /\ LineReady
    /\ LET raw  == ReadLine
           line == Decode(raw)
       IN  /\ rd' = rd + Len(raw)
           /\ \E submit \in BOOLEAN : ProcessLine(line, submit)
           /\ cliOut' = cliOut \o Encode(line)
    /\ entries' = IF ~accumulating /\ accumulating'
                  THEN Append(entries, [at |-> rd', n |-> expected_bytes'])
                  ELSE entries
    /\ UNCHANGED <<sent, RelayRest, syn, body_literals>>
    /\ UNCHANGED <<varsApi, varsInject, varsLogin, varsWs, varsScore,
                   varsHours, varsEma, varsCross, varsShared>>

NextEntry ==
    \/ FetchOpens
    \/ \E n \in LiteralSizes : FetchBodyLiteral(n)
    \/ \E n \in LiteralSizes : FetchOtherLiteral(n)
    \/ \E n \in LiteralSizes : FetchQuotedString(n)
    \/ \E o \in {ASCII_A, LF} : FetchLiteralOctet(o)
    \/ FetchCloses
    \/ RelayFetchLine

\* ---------------------------------------------------------------------
\* Several sessions: MindWallIMAPServer.__init__ creates one
\* FetchInterceptor, and the upstream pump of every session passes its
\* lines to that interceptor's process_line.
\* ---------------------------------------------------------------------

MaxSessions == 2    \* client sessions relaying at the same time

Sessions == 1..MaxSessions

\* The text octet of the mail of session k (sessions carry different mail).
SessionOctet(k) == ASCII_A + k - 1

\* What the upstream of session k sends: a FETCH response with a body of
\* n octets in one or two lines, or an untagged status line.
SessionScripts(k) ==
    {<<<<FETCH, BODYD, Lit(2), LF>>, <<SessionOctet(k), LF>>, <<CLOSE, LF>>>>,
     <<<<FETCH, BODYD, Lit(4), LF>>, <<SessionOctet(k), LF>>, <<SessionOctet(k), LF>>,
       <<CLOSE, LF>>>>,
     <<<<SessionOctet(k), LF>>, <<SessionOctet(k), SessionOctet(k), LF>>>>}

IdleShared ==
    /\ pending = [k \in Sessions |-> <<>>]
    /\ acc_owner = 0
    /\ captured = <<>>

StartShared ==
    /\ pending \in {f \in [Sessions -> UNION {SessionScripts(k) : k \in Sessions}] :
                        \A k \in Sessions : f[k] \in SessionScripts(k)}
    /\ acc_owner = 0
    /\ captured = <<>>

\* One turn of the upstream pump of session k: its next line goes through
\* the server's interceptor and on to its client.
SessionRelayLine(k) ==
    /\ pending[k] # <<>>
    /\ LET raw  == Head(pending[k])
           line == Decode(raw)
       IN  /\ rd' = rd + Len(raw)
           /\ \E submit \in BOOLEAN : ProcessLine(line, submit)
           /\ cliOut' = cliOut \o Encode(line)
    /\ pending' = [pending EXCEPT ![k] = Tail(@)]
    /\ acc_owner' = IF ~accumulating /\ accumulating' THEN k ELSE acc_owner
    /\ captured' = IF Len(captures') > Len(captures)
                   THEN Append(captured, [session |-> acc_owner, by |-> k,
                                          octets |-> captures'[Len(captures')].octets])
                   ELSE captured
    /\ UNCHANGED <<sent, RelayRest>>
    /\ UNCHANGED <<varsApi, varsInject, varsLogin, varsWs, varsScore,
                   varsHours, varsEma, varsCross, varsEntry>>

NextShared == \E k \in Sessions : SessionRelayLine(k)

IdleLate == IdleHours /\ IdleEma /\ IdleCross /\ IdleEntry /\ IdleShared

IdleMore == IdleInject /\ StartLogin /\ IdleWs /\ IdleScore /\ IdleLate

\* A FETCH response arrives for a message whose verdict, if any, is known.
StartInject ==
    /\ upstream_response \in Texts(MaxResponse) \ {<<>>}
    /\ verdict \in Severities
    /\ response = Decode(upstream_response)
    /\ injected = 0
    /\ observed = <<>>

\* One call of inject_score on the current text.
InjectScore ==
    /\ injected < MaxInject
    /\ response' = inject_score(response, verdict)
    /\ injected' = injected + 1
    /\ UNCHANGED <<upstream_response, verdict, observed>>
    /\ UNCHANGED <<varsRelay, varsApi, varsLogin, varsWs, varsScore, varsLate>>

\* _forward_upstream_responses on the lines of the response: process_line
\* returns each line as it came and the pump writes its encoding.  Neither
\* calls the injector.
RelayFetchResponse ==
    /\ observed = <<>>
    /\ observed' = Encode(Decode(upstream_response))
    /\ UNCHANGED <<upstream_response, verdict, response, injected>>
    /\ UNCHANGED <<varsRelay, varsApi, varsLogin, varsWs, varsScore, varsLate>>

NextInject == InjectScore \/ RelayFetchResponse

(***************************************************************************)
(* One client session: MindWallIMAPServer.handle_client and _pipe.  The    *)
(* content of the relayed lines is the subject of the relay model above;   *)
(* here a line is one log entry.                                           *)
(***************************************************************************)
MaxSessionLog == 6  \* entries of toClient and toUpstream together

\* What upstream.read_response(tag) returned for a LOGIN: the kind of its
\* tagged line (read_response stops at a line starting with the tag; "none"
\* when the stream ended or timed out first) and whether some line has the
\* text "<tag> OK" anywhere in it.
LoginResponses ==
    {r \in [tagged : {"OK", "NO", "none"}, contains_tag_ok : BOOLEAN] :
        r.tagged = "OK" => r.contains_tag_ok}

\* any(f"{tag} OK" in r for r in response)
LoginAccepted(resp) == resp.contains_tag_ok

HasRoom(n) == Len(toClient) + Len(toUpstream) + n <= MaxSessionLog

CancelPendingMut(st) == st

\* for task in pending: task.cancel()
CancelPending(st) == IF st = "run" THEN "cancelled" ELSE st

\* The finally block of handle_client: the held upstream connection and the
\* client writer are closed.
Teardown(cause, cs, tc, tu) ==
    /\ phase' = "closed"
    /\ conns' = IF upstream # 0 /\ upstream <= Len(cs)
                THEN [cs EXCEPT ![upstream] = "closed"] ELSE cs
    /\ ended' = [ended EXCEPT !.cause = cause, !.cli = Len(tc),
                              !.up = Len(tu)]

\* The client closes (end-of-stream) or resets its connection.
ClientDisconnects(how) ==
    /\ phase # "closed"
    /\ client = "open"
    /\ client' = how
    /\ UNCHANGED <<phase, upstream_host, conns, upstream, authenticated,
                   pumps, toClient, toUpstream, ended>>
    /\ UNCHANGED <<varsRelay, varsApi, varsInject, varsWs, varsScore, varsLate>>

\* The upstream server closes a connection.
UpstreamDisconnects(c) ==
    /\ phase # "closed"
    /\ conns[c] = "open"
    /\ conns' = [conns EXCEPT ![c] = "lost"]
    /\ UNCHANGED <<phase, client, upstream_host, upstream, authenticated,
                   pumps, toClient, toUpstream, ended>>
    /\ UNCHANGED <<varsRelay, varsApi, varsInject, varsWs, varsScore, varsLate>>

\* Pre-auth commands that only answer the client.
Answer(cmd) ==
    CASE cmd = "short" -> <<"BAD_invalid">>
      [] cmd = "CAPABILITY" -> <<"CAPABILITY">>
      [] cmd = "XMINDWALL host port" -> <<"OK_upstream_set">>
      [] cmd = "XMINDWALL host" -> <<"BAD_usage">>
      [] cmd = "STARTTLS" -> <<"NO_starttls">>
      [] OTHER -> <<"BAD_not_authenticated">>

SimpleCommands == {"short", "CAPABILITY", "XMINDWALL host port",
                   "XMINDWALL host", "STARTTLS", "NOOP"}

PreauthCommand(cmd) ==
    /\ phase = "preauth" /\ client = "open"
    /\ HasRoom(1)
    /\ toClient' = toClient \o Answer(cmd)
    /\ upstream_host' = (upstream_host \/ cmd = "XMINDWALL host port")
    /\ UNCHANGED <<phase, client, conns, upstream, authenticated, pumps,
                   toUpstream, ended>>
    /\ UNCHANGED <<varsRelay, varsApi, varsInject, varsWs, varsScore, varsLate>>

\* LOGIN or AUTHENTICATE before an upstream endpoint is set.
LoginUnconfigured ==
    /\ phase = "preauth" /\ client = "open"
    /\ ~upstream_host
    /\ HasRoom(1)
    /\ toClient' = Append(toClient, "NO_not_configured")
    /\ UNCHANGED <<phase, client, upstream_host, conns, upstream,
                   authenticated, pumps, toUpstream, ended>>
    /\ UNCHANGED <<varsRelay, varsApi, varsInject, varsWs, varsScore, varsLate>>

\* LOGIN with an endpoint set, upstream.connect() raises: the exception
\* reaches handle_client's except Exception and the finally block.
LoginConnectFails ==
    /\ phase = "preauth" /\ client = "open"
    /\ upstream_host
    /\ HasRoom(1)
    /\ upstream' = Len(conns) + 1
    /\ phase' = "closed"
    /\ ended' = [ended EXCEPT !.cause = "upstream_unreachable",
                              !.cli = Len(toClient), !.up = Len(toUpstream)]
    /\ UNCHANGED <<client, upstream_host, conns, authenticated, pumps,
                   toClient, toUpstream>>
    /\ UNCHANGED <<varsRelay, varsApi, varsInject, varsWs, varsScore, varsLate>>

\* LOGIN with an endpoint set and a connection established: the command is
\* forwarded, the response is relayed, and the session enters _pipe when
\* the response is accepted.
Login(resp) ==
    /\ phase = "preauth" /\ client = "open"
    /\ upstream_host
    /\ HasRoom(2)
    /\ LET c == Len(conns) + 1
       IN  /\ upstream' = c
           /\ conns' = Append(conns,
                  IF resp.tagged = "none" THEN "lost" ELSE "open")
    /\ toUpstream' = Append(toUpstream, "LOGIN")
    /\ toClient' = Append(toClient, "login_response")
    /\ IF LoginAccepted(resp)
       THEN /\ authenticated' = TRUE
            /\ phase' = "pipe"
            /\ pumps' = [c2u |-> "run", u2c |-> "run"]
            /\ ended' = [ended EXCEPT !.tagged_ok = (resp.tagged = "OK")]
       ELSE UNCHANGED <<authenticated, phase, pumps, ended>>
    /\ UNCHANGED <<client, upstream_host>>
    /\ UNCHANGED <<varsRelay, varsApi, varsInject, varsWs, varsScore, varsLate>>

\* LOGOUT in pre-auth: forwarded if a connection is held, answered with BYE.
Logout ==
    /\ phase = "preauth" /\ client = "open"
    /\ HasRoom(3)
    /\ LET tu == IF upstream # 0 THEN Append(toUpstream, "LOGOUT")
                 ELSE toUpstream
           tc == toClient \o <<"BYE", "OK_logout">>
       IN  /\ toUpstream' = tu
           /\ toClient' = tc
           /\ Teardown("logout", conns, tc, tu)
    /\ UNCHANGED <<client, upstream_host, upstream, authenticated, pumps>>
    /\ UNCHANGED <<varsRelay, varsApi, varsInject, varsWs, varsScore, varsLate>>

\* readline in pre-auth returns b"" or raises ConnectionResetError.
PreauthClientGone ==
    /\ phase = "preauth" /\ client # "open"
    /\ Teardown(IF client = "eof" THEN "client_eof" ELSE "client_reset",
                conns, toClient, toUpstream)
    /\ UNCHANGED <<client, upstream_host, upstream, authenticated, pumps,
                   toClient, toUpstream>>
    /\ UNCHANGED <<varsRelay, varsApi, varsInject, varsWs, varsScore, varsLate>>

\* _forward_client_commands: one line read from the client and sent on.
PumpClientLine ==
    /\ pumps.c2u = "run" /\ client = "open"
    /\ HasRoom(1)
    /\ toUpstream' = Append(toUpstream, "command")
    /\ UNCHANGED <<phase, client, upstream_host, conns, upstream,
                   authenticated, pumps, toClient, ended>>
    /\ UNCHANGED <<varsRelay, varsApi, varsInject, varsWs, varsScore, varsLate>>

\* _forward_client_commands: readline returns b"" or raises
\* ConnectionResetError; the task ends.
PumpClientEnd ==
    /\ pumps.c2u = "run" /\ client # "open"
    /\ pumps' = [pumps EXCEPT !.c2u = "done"]
    /\ UNCHANGED <<phase, client, upstream_host, conns, upstream,
                   authenticated, toClient, toUpstream, ended>>
    /\ UNCHANGED <<varsRelay, varsApi, varsInject, varsWs, varsScore, varsLate>>

\* _forward_upstream_responses: one line read from upstream and written to
\* the client; on a reset client the drain raises and the task ends.
PumpUpstreamLine ==
    /\ pumps.u2c = "run" /\ conns[upstream] = "open"
    /\ HasRoom(1)
    /\ IF client = "reset"
       THEN /\ pumps' = [pumps EXCEPT !.u2c = "done"]
            /\ UNCHANGED toClient
       ELSE /\ toClient' = Append(toClient, "relay")
            /\ UNCHANGED pumps
    /\ UNCHANGED <<phase, client, upstream_host, conns, upstream,
                   authenticated, toUpstream, ended>>
    /\ UNCHANGED <<varsRelay, varsApi, varsInject, varsWs, varsScore, varsLate>>

\* _forward_upstream_responses: read_lines ends at upstream end-of-stream.
PumpUpstreamEnd ==
    /\ pumps.u2c = "run" /\ conns[upstream] = "lost"
    /\ pumps' = [pumps EXCEPT !.u2c = "done"]
    /\ ended' = IF pumps.c2u = "run" /\ client = "open"
                THEN [ended EXCEPT !.cause = "upstream_eof"] ELSE ended
    /\ UNCHANGED <<phase, client, upstream_host, conns, upstream,
                   authenticated, toClient, toUpstream>>
    /\ UNCHANGED <<varsRelay, varsApi, varsInject, varsWs, varsScore, varsLate>>

\* _pipe: asyncio.wait returns when one task is done, the pending task is
\* cancelled, handle_client leaves its loop and runs the finally block.
PipeEnds ==
    /\ phase = "pipe"
    /\ pumps.c2u = "done" \/ pumps.u2c = "done"
    /\ pumps' = [c2u |-> CancelPending(pumps.c2u),
                 u2c |-> CancelPending(pumps.u2c)]
    /\ Teardown(IF ended.cause = "upstream_eof" THEN "upstream_eof"
                ELSE IF client = "eof" THEN "client_eof"
                ELSE "client_reset",
                conns, toClient, toUpstream)
    /\ UNCHANGED <<client, upstream_host, upstream, authenticated,
                   toClient, toUpstream>>
    /\ UNCHANGED <<varsRelay, varsApi, varsInject, varsWs, varsScore, varsLate>>

NextLogin ==
    \/ \E how \in {"eof", "reset"} : ClientDisconnects(how)
    \/ \E c \in 1..Len(conns) : UpstreamDisconnects(c)
    \/ \E cmd \in SimpleCommands : PreauthCommand(cmd)
    \/ LoginUnconfigured
    \/ LoginConnectFails
    \/ \E resp \in LoginResponses : Login(resp)
    \/ Logout
    \/ PreauthClientGone
    \/ PumpClientLine
    \/ PumpClientEnd
    \/ PumpUpstreamLine
    \/ PumpUpstreamEnd
    \/ PipeEnds

\* ---------------------------------------------------------------------
\* Alert subscribers: WebSocketManager (src/api/websocket/manager.py)
\* ---------------------------------------------------------------------

Elems(list) == {list[i] : i \in 1..Len(list)}

NoDup(list) == \A i, j \in 1..Len(list) : list[i] = list[j] => i = j

\* list.remove(x): the list without its first occurrence of x.
RemoveFirst(list, x) ==
    IF x \notin Elems(list) THEN list
    ELSE LET p == CHOOSE i \in 1..Len(list) : list[i] = x /\ \A j \in 1..(i - 1) : list[j] # x
         IN [k \in 1..(Len(list) - 1) |-> IF k < p THEN list[k] ELSE list[k + 1]]

RECURSIVE RemoveEachMut(_, _)
RemoveEachMut(list, disconnected) == list

\* for conn in disconnected: self.disconnect(conn)
RECURSIVE RemoveEach(_, _)
RemoveEach(list, disconnected) ==
    IF disconnected = <<>> THEN list
    ELSE RemoveEach(RemoveFirst(list, Head(disconnected)), Tail(disconnected))

\* The loop of broadcast from index i up to its next suspension: a send to
\* a dead connection raises and is collected in `disconnected`; a send to a
\* live one is written and awaited.
RECURSIVE Advance(_, _, _, _, _)
Advance(list, ok, i, disc, fl) ==
    IF i > Len(list) THEN [idx |-> i, awaiting |-> 0, disconnected |-> disc, failed |-> fl]
    ELSE IF ~ok[list[i]] THEN Advance(list, ok, i + 1, Append(disc, list[i]), fl \cup {list[i]})
    ELSE [idx |-> i, awaiting |-> list[i], disconnected |-> disc, failed |-> fl]

\* Calls of broadcast that are suspended and see the list change under
\* them; `stayed` keeps the sinks registered ever since the call began.
Touch(bs, self, changed, left) ==
    [k \in DOMAIN bs |-> IF k # self /\ bs[k].pc = "awaiting" /\ changed
                         THEN [bs[k] EXCEPT !.fixed = FALSE,
                                            !.stayed = @ \cap Elems(left)]
                         ELSE bs[k]]

\* broadcast number b runs from index i to its next await or to its end.
Continue(bs, b, i) ==
    LET a == Advance(active_connections, sink_ok, i, bs[b].disconnected, bs[b].failed)
        rec == [bs[b] EXCEPT !.idx = a.idx, !.awaiting = a.awaiting,
                             !.disconnected = a.disconnected, !.failed = a.failed]
    IN IF a.awaiting # 0
       THEN /\ inbox' = [inbox EXCEPT ![a.awaiting] = Append(@, rec.event)]
            /\ bcasts' = [bs EXCEPT ![b] = [rec EXCEPT !.pc = "awaiting"]]
            /\ UNCHANGED active_connections
       ELSE LET left == RemoveEach(active_connections, a.disconnected)
            IN /\ active_connections' = left
               /\ bcasts' = Touch([bs EXCEPT ![b] = [rec EXCEPT !.pc = "done", !.after = left]],
                                  b, left # active_connections, left)
               /\ UNCHANGED inbox

\* connect(websocket): accept, then append to the list.
Connect(sk) ==
    /\ sink_ok[sk]
    /\ Len(active_connections) < MaxList
    /\ active_connections' = Append(active_connections, sk)
    /\ bcasts' = Touch(bcasts, 0, TRUE, active_connections')
    /\ UNCHANGED <<sink_ok, inbox>>
    /\ UNCHANGED <<varsRelay, varsApi, varsInject, varsLogin, varsScore, varsLate>>

\* disconnect(websocket): remove it if it is in the list.
Disconnect(sk) ==
    /\ sk \in Elems(active_connections)
    /\ active_connections' = RemoveFirst(active_connections, sk)
    /\ bcasts' = Touch(bcasts, 0, TRUE, active_connections')
    /\ UNCHANGED <<sink_ok, inbox>>
    /\ UNCHANGED <<varsRelay, varsApi, varsInject, varsLogin, varsScore, varsLate>>

\* The dashboard connection of a sink dies: sends to it raise from now on.
SinkBreaks(sk) ==
    /\ sink_ok[sk]
    /\ sink_ok' = [sink_ok EXCEPT ![sk] = FALSE]
    /\ UNCHANGED <<active_connections, inbox, bcasts>>
    /\ UNCHANGED <<varsRelay, varsApi, varsInject, varsLogin, varsScore, varsLate>>

\* A caller enters broadcast(event, data); events are numbered by call.
BroadcastCall ==
    /\ Len(bcasts) < MaxBroadcasts
    /\ LET b == Len(bcasts) + 1
           rec == [event |-> b, idx |-> 1, awaiting |-> 0, disconnected |-> <<>>,
                   failed |-> {}, delivered |-> {}, start |-> active_connections,
                   stayed |-> Elems(active_connections),
                   fixed |-> TRUE, after |-> <<>>, pc |-> "awaiting"]
       IN Continue(Append(bcasts, rec), b, 1)
    /\ UNCHANGED sink_ok
    /\ UNCHANGED <<varsRelay, varsApi, varsInject, varsLogin, varsScore, varsLate>>

LastPos(log, e) == CHOOSE i \in 1..Len(log) : log[i] = e /\ \A j \in (i + 1)..Len(log) : log[j] # e

\* await connection.send_text(payload) returns or raises in broadcast b,
\* which then runs on to its next send or to its clean-up. Sends written to
\* one live connection complete in the order they were written.
SendReturns(b) ==
    /\ b \in 1..Len(bcasts)
    /\ bcasts[b].pc = "awaiting"
    /\ LET sk == bcasts[b].awaiting
           rec == IF sink_ok[sk]
                  THEN [bcasts[b] EXCEPT !.delivered = @ \cup {sk}]
                  ELSE [bcasts[b] EXCEPT !.failed = @ \cup {sk},
                                         !.disconnected = Append(@, sk)]
       IN /\ sink_ok[sk] => \A o \in 1..Len(bcasts) :
                 (o # b /\ bcasts[o].pc = "awaiting" /\ bcasts[o].awaiting = sk)
                     => LastPos(inbox[sk], o) > LastPos(inbox[sk], b)
          /\ Continue([bcasts EXCEPT ![b] = rec], b, bcasts[b].idx + 1)
    /\ UNCHANGED sink_ok
    /\ UNCHANGED <<varsRelay, varsApi, varsInject, varsLogin, varsScore, varsLate>>

NextWs ==
    \/ \E sk \in Sinks : Connect(sk)
    \/ \E sk \in Sinks : Disconnect(sk)
    \/ \E sk \in Sinks : SinkBreaks(sk)
    \/ BroadcastCall
    \/ \E b \in 1..MaxBroadcasts : SendReturns(b)

(***************************************************************************)
(* The relay of one session, from the moment _pipe starts both pumps.      *)
(***************************************************************************)
InitRelay ==
    /\ sent = <<>>
    /\ rd = 0
    /\ upClosed = FALSE
    /\ cliOut = <<>>
    /\ accumulating = FALSE
    /\ accumulated_bytes = <<>>
    /\ expected_bytes = 0
    /\ accStart = 0
    /\ captures = <<>>
    /\ tasks = <<>>
    /\ u2c = "run"
    /\ c2u = "run"
    /\ cliCmds = 0
    /\ upCmds = 0

NextRelay ==
    \/ \E o \in {ASCII_A, LF, BAD8} : UpstreamSendOctet(o)
    \/ \E n \in 0..MaxLiteral : UpstreamSendFetch(n)
    \/ UpstreamClose
    \/ ClientSend
    \/ ForwardUpstreamResponse
    \/ ForwardUpstreamEnd
    \/ ForwardClientCommand
    \/ PipeCancel
    \/ \E i \in 1..Len(tasks) : \E r \in SubmitOutcomes :
           SubmitForAnalysisEnds(i, r)

Init == InitApi /\ InitRelay /\ IdleMore

\* A proxy session against an API that has served no request yet.
InitSession ==
    /\ InitRelay
    /\ runs = <<>> /\ analyses = <<>> /\ alerts = <<>>
    /\ broadcasts = <<>> /\ updates = <<>>
    /\ baselines = [key \in Keys |-> NoRow]
    /\ seeded = baselines
    /\ IdleMore

SpecRelay == InitSession /\ [][NextRelay]_vars

Spec == Init /\ [][Next]_vars

\* The relay and the API at rest, for the specifications of the other parts.
IdleRelayApi ==
    /\ InitRelay
    /\ runs = <<>> /\ analyses = <<>> /\ alerts = <<>>
    /\ broadcasts = <<>> /\ updates = <<>>
    /\ baselines = [key \in Keys |-> NoRow]
    /\ seeded = baselines

InitInject == StartInject /\ IdleRelayApi /\ StartLogin /\ IdleWs /\ IdleScore /\ IdleLate

SpecInject == InitInject /\ [][NextInject]_vars

InitLogin == StartLogin /\ IdleRelayApi /\ IdleInject /\ IdleWs /\ IdleScore /\ IdleLate

SpecLogin == InitLogin /\ [][NextLogin]_vars

InitWs == IdleWs /\ IdleRelayApi /\ IdleInject /\ StartLogin /\ IdleScore /\ IdleLate

SpecWs == InitWs /\ [][NextWs]_vars

InitScore == StartScore /\ IdleRelayApi /\ IdleInject /\ StartLogin /\ IdleWs /\ IdleLate

SpecScore == InitScore /\ [][NextScore]_vars

IdleEarly == IdleRelayApi /\ IdleInject /\ StartLogin /\ IdleWs /\ IdleScore

InitHours == IdleHours /\ IdleEarly /\ IdleEma /\ IdleCross /\ IdleEntry /\ IdleShared

SpecHours == InitHours /\ [][NextHours]_vars

InitEma == StartEma /\ IdleEarly /\ IdleHours /\ IdleCross /\ IdleEntry /\ IdleShared

SpecEma == InitEma /\ [][NextEma]_vars

InitCross == StartCross /\ IdleEarly /\ IdleHours /\ IdleEma /\ IdleEntry /\ IdleShared

SpecCross == InitCross /\ [][NextCross]_vars

InitEntry == InitSession

SpecEntry == InitEntry /\ [][NextEntry]_vars

InitShared == StartShared /\ IdleEarly /\ IdleHours /\ IdleEma /\ IdleCross /\ IdleEntry

SpecShared == InitShared /\ [][NextShared]_vars


(***************************************************************************)
(*                        Claims about the relay                           *)
(***************************************************************************)

\* C1 (as claimed): for every FETCH body literal {N} the interceptor takes
\* exactly the next N upstream octets as the body: the captured octets are
\* those N octets, the octets written to the client for the body are those N
\* octets unchanged, and the interceptor is accumulating exactly until the
\* Nth octet has been read.
C1_LengthExact ==
    /\ \A k \in 1..Len(captures) :
           LET c == captures[k]
           IN  /\ rd >= c.start + c.n
               /\ c.octets = SubSeq(sent, c.start + 1, c.start + c.n)
               /\ Len(cliOut) >= c.emit + c.n
               /\ SubSeq(cliOut, c.emit + 1, c.emit + c.n) = c.octets
    /\ accumulating => rd < accStart + expected_bytes

\* C2 (as claimed): when the upstream stream holds no FETCH body literal, the
\* octets written to the client are the octets read from upstream, octet for
\* octet.
NoBodyLiteral == \A i \in 1..Len(sent) : sent[i] # BODYD

C2_ByteExact == NoBodyLiteral => cliOut = SubSeq(sent, 1, rd)

\* C3: the relay never waits for, and is never ended by, an analysis
\* submission: whatever state the submissions are in (posting forever, ended
\* with an error status, ended with a logged exception), a pump with a line
\* to relay can take its turn, every line read has been written to the
\* client, and a pump ends only when the upstream stream has ended.
C3_AnalysisNeverBlocksRelay ==
    /\ (u2c = "run" /\ LineReady) => ENABLED ForwardUpstreamResponse
    /\ (c2u = "run" /\ cliCmds > 0) => ENABLED ForwardClientCommand
    /\ cliOut = Encode(Decode(SubSeq(sent, 1, rd)))
    /\ (u2c = "done" \/ c2u = "done") => (upClosed /\ Unread = <<>>)

\* C3 witness: the first submission is still posting (stalled) and a line
\* sent after the body's last octet has been read and written to the client.
C3_Witness ==
    /\ Len(tasks) >= 1 /\ tasks[1] = "posting"
    /\ Len(captures) >= 1 /\ rd > captures[1].end
    /\ Len(cliOut) >= rd


(***************************************************************************)
(* Properties of the analysis API.                                         *)
(***************************************************************************)
DoneUpdates(key) ==
    {u \in 1..Len(updates) : updates[u].key = key /\ updates[u].pc = "done"}

Finished(r) == runs[r].pc \in {"done", "failed"}

HasAlert(aid) == \E a \in 1..Len(alerts) : alerts[a].analysis_id = aid

\* C4 Baseline updates of one (recipient, sender) key are serialized: no two
\* updates of a key are between their read and their write at once, and
\* after k updates of the key have completed the stored sample count is the
\* initial count plus k, so no update's contribution is lost.
C4_UpdatesSerialized ==
    /\ \A u, v \in 1..Len(updates) :
           (u # v /\ updates[u].key = updates[v].key)
               => ~(updates[u].pc = "write" /\ updates[v].pc = "write")
    /\ \A key \in Keys :
           baselines[key].sample_count =
               seeded[key].sample_count + Cardinality(DoneUpdates(key))

\* C5 Once a run has finished, its analysis record has an alert record
\* exactly when the aggregate score is at least 35, also when the alert
\* insert failed.
C5_AlertIff ==
    \A r \in 1..Len(runs) :
        (Finished(r) /\ runs[r].analysis_id # 0)
            => (HasAlert(runs[r].analysis_id)
                  <=> analyses[runs[r].analysis_id].manipulation_score
                          >= Pt(MEDIUM))

\* C6 A submission whose (message_uid, recipient) already has an analysis
\* record gets the existing record back: the insert does not fail and the
\* caller sees no error.
C6_ConflictReturnsExisting ==
    \A r \in 1..Len(runs) :
        (Finished(r) /\ runs[r].raised = "analysis_insert"
                     /\ UniqueViolation(runs[r].message_uid,
                                        runs[r].recipient_email))
            => runs[r].exc # "IntegrityError"

\* C7 At most one analysis record exists per (message_uid, recipient),
\* whatever the order or interleaving of the submissions.
C7_Uniqueness ==
    \A i, j \in 1..Len(analyses) :
        (/\ analyses[i].message_uid = analyses[j].message_uid
         /\ analyses[i].recipient_email = analyses[j].recipient_email)
            => i = j

\* Two runs with one fingerprint reached the insert: one committed, the
\* other hit the constraint, and one record exists.
C7_Witness ==
    \E r, q \in 1..Len(runs) :
        /\ r # q
        /\ runs[r].message_uid = runs[q].message_uid
        /\ runs[r].analysis_id # 0
        /\ runs[q].exc = "IntegrityError"
        /\ Cardinality({i \in 1..Len(analyses) :
               analyses[i].message_uid = runs[r].message_uid}) = 1

InferenceFailures == {"OllamaClientError", "JSONDecodeError",
                      "CancelledError"}

\* C8 A failure of the inference stage (timeout, transport error, HTTP
\* error, non-JSON response, cancellation) never aborts the run: the run
\* goes on with the fallback verdict derived from the pre-filter.
C8_InferenceFailureNeverAborts ==
    \A r \in 1..Len(runs) :
        runs[r].inference_exc \in InferenceFailures
            => /\ runs[r].raised # "inference"
               /\ runs[r].llm_data =
                      validate_llm_response(fallback_scores(runs[r].pf))

\* C9 A malformed inference response (not JSON, no dimension_scores, or a
\* non-numeric dimension score) yields the fallback verdict and not a
\* verdict built from the response.
C9_MalformedTriggersFallback ==
    \A r \in 1..Len(runs) :
        runs[r].malformed
            => /\ runs[r].raised \notin {"inference", "validation"}
               /\ runs[r].llm_data =
                      validate_llm_response(fallback_scores(runs[r].pf))

\* C10 A new_alert event is broadcast only after the analysis record and
\* the alert record it names are committed; a submission whose analysis or
\* alert insert failed broadcasts nothing and is answered with HTTP 500.
C10_PersistenceBeforeBroadcast ==
    /\ \A b \in 1..Len(broadcasts) :
           LET e == broadcasts[b]
           IN  /\ e.analysis_id \in 1..Len(analyses)
               /\ e.alert_id \in 1..Len(alerts)
               /\ alerts[e.alert_id].analysis_id = e.analysis_id
               /\ analyses[e.analysis_id].message_uid =
                      runs[e.run].message_uid
    /\ \A r \in 1..Len(runs) :
           runs[r].raised \in {"analysis_insert", "alert_insert"}
               => /\ runs[r].http = 500
                  /\ \A b \in 1..Len(broadcasts) : broadcasts[b].run # r

\* One submission broadcast its alert after both commits; another lost its
\* alert insert, was answered 500 and broadcast nothing.
C10_Witness ==
    \E r, q \in 1..Len(runs) :
        /\ runs[r].pc = "done" /\ runs[r].alert_id # 0
        /\ \E b \in 1..Len(broadcasts) : broadcasts[b].run = r
        /\ runs[q].raised = "alert_insert" /\ runs[q].http = 500
        /\ runs[q].analysis_id # 0

(***************************************************************************)
(* Properties of the annotation.                                           *)
(***************************************************************************)
RECURSIVE Count(_, _)
Count(text, o) ==
    IF text = <<>> THEN 0
    ELSE (IF Head(text) = o THEN 1 ELSE 0) + Count(Tail(text), o)

HasSubject(text) == SubjectMatches(Decode(text)) # {}

\* C11 When the relay has written a FETCH response to the client and the
\* message has a verdict of severity medium, high or critical, the client
\* sees the severity's badge once more than the upstream sent it, in the
\* Subject header; with no such verdict the response is unchanged.
C11_AnnotationCorrect ==
    observed # <<>>
        => IF SEVERITY_BADGES(verdict) # NoBadge
              /\ HasSubject(upstream_response)
           THEN Count(observed, SEVERITY_BADGES(verdict)) =
                    Count(upstream_response, SEVERITY_BADGES(verdict)) + 1
           ELSE observed = upstream_response

\* C12 inject_score is idempotent on its own annotation: once the badge has
\* been injected, injecting the same severity again returns the text
\* unchanged.
C12_InjectorIdempotent ==
    (injected >= 1 /\ SEVERITY_BADGES(verdict) # NoBadge
                   /\ SubjectMatches(response) # {})
        => inject_score(response, verdict) = response

(***************************************************************************)
(* Properties of the client session.                                       *)
(***************************************************************************)
ClientGone == ended.cause \in {"client_eof", "client_reset"}

\* C13 A client disconnect tears the session down: the disconnect is always
\* acted on, and once the session has ended for it neither pump runs, the
\* upstream connection the session holds is closed, and nothing more is
\* written to the client or to upstream.
C13_ClientDisconnectTearsDown ==
    /\ (phase = "preauth" /\ client # "open") => ENABLED PreauthClientGone
    /\ (phase = "pipe" /\ client # "open" /\ pumps.c2u = "run")
           => ENABLED PumpClientEnd
    /\ (phase = "pipe" /\ pumps.c2u = "done") => ENABLED PipeEnds
    /\ (phase = "closed" /\ ClientGone)
           => /\ pumps.c2u # "run" /\ pumps.u2c # "run"
              /\ upstream \in 1..Len(conns) => conns[upstream] = "closed"
              /\ Len(toClient) = ended.cli
              /\ Len(toUpstream) = ended.up

\* The client closed during the relay: the upstream pump was cancelled
\* after it had relayed a line, and the upstream connection is closed.
C13_Witness ==
    /\ phase = "closed" /\ ended.cause = "client_eof"
    /\ pumps.c2u = "done" /\ pumps.u2c = "cancelled"
    /\ upstream \in 1..Len(conns) /\ conns[upstream] = "closed"
    /\ \E i \in 1..Len(toClient) : toClient[i] = "relay"

\* C14 When the upstream cannot be reached or disconnects during the relay,
\* the client is sent an untagged BYE before its connection is closed.
C14_UpstreamLossSendsBye ==
    (phase = "closed"
        /\ ended.cause \in {"upstream_unreachable", "upstream_eof"})
        => \E i \in 1..Len(toClient) : toClient[i] = "BYE"

\* C15 Without an upstream endpoint set, a login opens no upstream
\* connection and the session stays in pre-auth; the session is
\* authenticated only after an endpoint was set and the upstream answered
\* the login with a tagged OK.
C15_LoginRequiresUpstream ==
    /\ ~upstream_host
           => /\ conns = <<>> /\ upstream = 0
              /\ ~authenticated /\ phase # "pipe"
    /\ authenticated => (upstream_host /\ ended.tagged_ok)

StageSteps ==
    {<<"baseline", "llm">>, <<"llm", "persist">>, <<"persist", "alert">>,
     <<"persist", "finish">>, <<"alert", "broadcast">>,
     <<"broadcast", "finish">>, <<"finish", "done">>}
    \cup {<<st, "failed">> :
             st \in {"baseline", "llm", "persist", "alert", "broadcast"}}

UpdatesOf(r) == {u \in 1..Len(updates) : updates[u].run = r}

\* C16 The stages of one request run in the order pre-filter, baseline
\* lookup and deviation scoring, inference and aggregation, persistence,
\* alert emission, baseline-update scheduling.  The baseline update of a
\* request exists only once its analysis record is persisted and its
\* verdict is returned, it is scheduled unstarted in the step that returns
\* the verdict, so the baseline the request read did not include it.
C16_StageOrder ==
    /\ [](\A u \in 1..Len(updates) :
              LET rec == runs[updates[u].run]
              IN  /\ rec.pc = "done" /\ rec.http = 200
                  /\ rec.analysis_id \in 1..Len(analyses)
                  /\ analyses[rec.analysis_id].message_uid = rec.message_uid
                  /\ Cardinality(UpdatesOf(updates[u].run)) = 1)
    /\ [][/\ \A r \in 1..Len(runs) :
                 runs'[r].pc # runs[r].pc
                     => <<runs[r].pc, runs'[r].pc>> \in StageSteps
          /\ Len(updates') > Len(updates)
                 => /\ updates'[Len(updates')].pc = "read"
                    /\ runs[updates'[Len(updates')].run].pc = "finish"]_vars

\* A request went through every stage and was answered while its baseline
\* update had not started.
C16_Witness ==
    \E r \in 1..Len(runs) :
        /\ runs[r].pc = "done" /\ runs[r].http = 200
        /\ runs[r].alert_id # 0
        /\ \E b \in 1..Len(broadcasts) : broadcasts[b].run = r
        /\ \E u \in UpdatesOf(r) : updates[u].pc = "read"

\* C17 One broadcast over a subscriber set that nobody else changes meanwhile
\* returns normally having tried every subscriber: each sink whose send
\* raised is no longer registered when it returns, each sink whose send
\* succeeded still is, and a failing sink does not stop the others.
C17_BroadcastBestEffort ==
    \A b \in 1..Len(bcasts) :
        (bcasts[b].pc = "done" /\ bcasts[b].fixed /\ NoDup(bcasts[b].start))
            => /\ bcasts[b].delivered \cup bcasts[b].failed = Elems(bcasts[b].start)
               /\ bcasts[b].delivered \cap bcasts[b].failed = {}
               /\ bcasts[b].failed \cap Elems(bcasts[b].after) = {}
               /\ bcasts[b].delivered \subseteq Elems(bcasts[b].after)

C17_Witness ==
    \E b \in 1..Len(bcasts) :
        /\ bcasts[b].pc = "done" /\ bcasts[b].fixed /\ NoDup(bcasts[b].start)
        /\ bcasts[b].failed # {}
        /\ bcasts[b].delivered # {}
        /\ bcasts[b].start[1] \in bcasts[b].failed

\* C18 Registering a sink that is already registered leaves it held once.
C18_SubscribeIdempotent == NoDup(active_connections)

\* C19 A sink that receives two events, each once, receives them in the
\* order in which broadcast was called for them.
C19_PerSubscriberFifo ==
    \A sk \in Sinks : NoDup(inbox[sk]) =>
        \A i, j \in 1..Len(inbox[sk]) : i < j => inbox[sk][i] < inbox[sk][j]

\* The claimed value, in 1/10000 of a point: the weighted sum of the merged
\* dimension scores clamped to [0,100], plus the boost, clamped again.
Ideal4 ==
    Clamp(0, Pt(Pt(100)),
          Clamp(0, Pt(Pt(100)), WeightedSum(score_out.final_scores, 1)) + 100 * score_in.score_boost)

InputDims ==
    IF "dimension_scores" \in DOMAIN score_in.llm_data
    THEN score_in.llm_data.dimension_scores ELSE EmptyMap

\* C21 The dimension map that is persisted and returned has exactly the
\* twelve dimension keys, each value in [0,100]: a key the reply lacks
\* becomes 0, a key that is not a dimension is dropped, a value outside the
\* range is clamped.
C21_TwelveDimensions ==
    score_pc \in {"merged", "aggregated", "boosted"} =>
        /\ DOMAIN score_out.final_scores = DimSet
        /\ \A d \in DimSet : score_out.final_scores[d] \in 0..Pt(100)
        /\ \A d \in DimSet \ {"sender_behavioral_deviation"} :
              /\ d \notin DOMAIN InputDims => score_out.final_scores[d] = 0
              /\ (d \in DOMAIN InputDims /\ InputDims[d].t = "num" /\ InputDims[d].v > Pt(100))
                     => score_out.final_scores[d] = Pt(100)
              /\ (d \in DOMAIN InputDims /\ InputDims[d].t = "num" /\ InputDims[d].v < 0)
                     => score_out.final_scores[d] = 0

C21_Witness ==
    /\ score_pc = "boosted"
    /\ EXTRA_KEY \in DOMAIN InputDims
    /\ "timing_anomaly" \notin DOMAIN InputDims
    /\ "authority_impersonation" \in DOMAIN InputDims
    /\ InputDims["authority_impersonation"].v > Pt(100)
    /\ score_out.final_scores["authority_impersonation"] = Pt(100)

SeverityTable(s) ==
    CASE s >= Pt(80) -> "critical"
      [] s >= Pt(60) /\ s < Pt(80) -> "high"
      [] s >= Pt(35) /\ s < Pt(60) -> "medium"
      [] s < Pt(35) -> "low"

Rank(sev) == CASE sev = "low" -> 0 [] sev = "medium" -> 1 [] sev = "high" -> 2 [] sev = "critical" -> 3

SeverityProbes ==
    {0, Pt(35) - 1, Pt(35), Pt(60) - 1, Pt(60), Pt(80) - 1, Pt(80), Pt(100)}
        \cup {runs[r].aggregate_score : r \in 1..Len(runs)}

\* C22 Severity is the threshold function of the score (>= 80 critical,
\* >= 60 high, >= 35 medium, else low) and is monotone, and the severity on
\* every alert and in every verdict is that function of the final aggregate.
C22_SeverityMonotone ==
    /\ \A s \in SeverityProbes : severity(s) = SeverityTable(s)
    /\ \A s1, s2 \in SeverityProbes : s1 <= s2 => Rank(severity(s1)) <= Rank(severity(s2))
    /\ \A r \in 1..Len(runs) :
          runs[r].pc \in {"persist", "alert", "broadcast", "finish", "done"}
              => runs[r].severity = SeverityTable(runs[r].aggregate_score)
    /\ \A a \in 1..Len(alerts) :
          alerts[a].severity = SeverityTable(analyses[alerts[a].analysis_id].manipulation_score)

C22_Witness ==
    \E r \in 1..Len(runs) :
        /\ runs[r].pc = "done" /\ runs[r].http = 200
        /\ runs[r].alert_id \in 1..Len(alerts)
        /\ alerts[runs[r].alert_id].severity = runs[r].severity
        /\ runs[r].severity # "low"
        /\ runs[r].pf.score_boost > 0

\* C23 The stored typical-hours list has no duplicate and at most 8
\* entries, and it holds exactly the 8 most recently added hours (all of
\* them while fewer than 8 were added).
C23_TypicalHoursBound ==
    /\ NoDup(typical_hours)
    /\ Len(typical_hours) <= 8
    /\ Elems(typical_hours) = Elems(LastOf(added_hours, 8))

\* C24 After 50 updates that all measure the same value on an axis, the
\* stored value of the axis is within 1e-3 of that value.
C24_EmaStability ==
    ema_updates = 50 =>
        LET d == ema_axis.value - ema_sample
        IN  1000 * (IF d < 0 THEN 0 - d ELSE d) <= ema_axis.unit

SeenChannels ==
    ({cc_in.current_channel} \cup
        {cc_in.recent_analyses[i].channel : i \in 1..Len(cc_in.recent_analyses)}) \ {NoChannel}

\* C25 With fewer than 2 distinct channels among the current one and the
\* recent records, detect returns detected = false, score = 0, channels =
\* [current] and count = 0; otherwise the score is
\* 25 x (channels - 1) + min(30, 10 x count) + 20 on escalation, clamped.
C25_BelowChannelMinimum ==
    cc_pc = "returned" =>
        IF Cardinality(SeenChannels) < 2
        THEN cc_out = [coordination_detected |-> FALSE, score |-> 0,
                       channels_used |-> {cc_in.current_channel},
                       recent_analysis_count |-> 0]
        ELSE LET sc == SelectScores(cc_in.recent_analyses)
                 esc == Len(sc) >= 2 /\ sc[Len(sc)].manipulation_score > sc[1].manipulation_score
             IN /\ cc_out.coordination_detected
                /\ cc_out.score = Clamp(0, Pt(100),
                       Pt(25) * (Cardinality(SeenChannels) - 1)
                       + Min(Pt(30), Pt(10) * Len(cc_in.recent_analyses))
                       + (IF esc THEN Pt(20) ELSE 0))

\* C26 The interceptor begins to accumulate exactly at the body literals of
\* the FETCH responses: once for every BODY[] {N} in literal position whose
\* line it has read, with that N, and nowhere else.
C26_AccumulatingEntry ==
    entries = SelectSeq(body_literals, LAMBDA l : l.at <= rd)

\* C27 The octets accumulated and captured for a message of one session
\* come from that session's lines only, and the capture is completed by a
\* line of that session.
C27_SessionIsolation ==
    /\ \A c \in 1..Len(captured) :
          /\ captured[c].by = captured[c].session
          /\ \A i \in 1..Len(captured[c].octets) :
                 captured[c].octets[i] \in {SessionOctet(captured[c].session), LF}
    /\ accumulating =>
          \A i \in 1..Len(accumulated_bytes) :
              accumulated_bytes[i] \in {SessionOctet(acc_owner), LF, CLOSE}

Occurrences(log, e) == Cardinality({i \in 1..Len(log) : log[i] = e})

\* C28 When a broadcast has returned, every sink that was registered (once)
\* from its call to its return and whose delivery did not fail has received
\* the event exactly once, whatever connects, disconnects and evictions
\* happened while the broadcast was suspended.
C28_NoSubscriberSkipped ==
    \A b \in 1..Len(bcasts) :
        (bcasts[b].pc = "done" /\ NoDup(bcasts[b].start))
            => \A sk \in (bcasts[b].stayed \cap Elems(active_connections)) \ bcasts[b].failed :
                   Occurrences(inbox[sk], bcasts[b].event) = 1

\* C29 When the session has ended, no upstream connection opened during it
\* is still open.
C29_NoUpstreamLeak ==
    phase = "closed" => \A c \in 1..Len(conns) : conns[c] # "open"

RejectedDuplicate(rec) ==
    rec.raised = "analysis_insert" /\ rec.exc = "IntegrityError"

RowsOf(key) ==
    {i \in 1..Len(analyses) :
        <<analyses[i].recipient_email, analyses[i].sender_email>> = key}

\* C30 A run whose analysis insert is rejected by the (message_uid,
\* recipient) uniqueness constraint has no analysis id and no alert, no
\* new_alert event and no baseline update carry it, and the step that
\* rejects it changes no table, event log or update queue; there is one
\* alert per run that holds an alert id, every baseline update belongs to a
\* run that persisted its own record, a sender's sample-count exceeds its
\* starting value by at most the number of that sender's persisted records,
\* and no step changes or removes an existing analysis record.
C30_RejectedDuplicate ==
    /\ [](/\ \A r \in 1..Len(runs) :
                 RejectedDuplicate(runs[r])
                     => /\ runs[r].pc = "failed"
                        /\ runs[r].analysis_id = 0 /\ runs[r].alert_id = 0
                        /\ \A b \in 1..Len(broadcasts) : broadcasts[b].run # r
                        /\ UpdatesOf(r) = {}
          /\ Len(alerts) =
                 Cardinality({r \in 1..Len(runs) : runs[r].alert_id # 0})
          /\ \A u \in 1..Len(updates) :
                 /\ runs[updates[u].run].analysis_id \in 1..Len(analyses)
                 /\ Cardinality(UpdatesOf(updates[u].run)) = 1
          /\ \A key \in Keys :
                 baselines[key].sample_count
                     <= seeded[key].sample_count + Cardinality(RowsOf(key)))
    /\ [][/\ \A r \in 1..Len(runs) :
                 (~RejectedDuplicate(runs[r]) /\ RejectedDuplicate(runs'[r]))
                     => /\ runs[r].pc = "persist"
                        /\ UNCHANGED <<analyses, alerts, baselines,
                                       broadcasts, updates>>
          /\ \A i \in 1..Len(analyses) :
                 i <= Len(analyses') /\ analyses'[i] = analyses[i]]_vars

\* A run that would have raised an alert was rejected as a duplicate of a
\* persisted record of another run whose baseline update has been written.
C30_Witness ==
    \E r, q \in 1..Len(runs) :
        /\ RejectedDuplicate(runs[r])
        /\ runs[r].aggregate_score >= Pt(MEDIUM)
        /\ q # r /\ runs[q].analysis_id # 0
        /\ analyses[runs[q].analysis_id].message_uid = runs[r].message_uid
        /\ runs[q].sender_email = runs[r].sender_email
        /\ \E u \in UpdatesOf(q) : updates[u].pc = "done"

====
